---- MODULE Spec2Model ----
(***************************************************************************)
(* Storage and synchronization engine of the sugar-network activity:       *)
(* Sequence (toolkit/collection.py), record store and Directory            *)
(* (active_document), write queue and index proxy, packet generation and   *)
(* the master/satellite exchange.  Each component has its own variables,   *)
(* its own actions and its own specification; a specification leaves the   *)
(* variables of the other components at their initial value.               *)
(***************************************************************************)
EXTENDS Integers, Sequences, FiniteSets, TLC

VARIABLES
    seq,        \* Sequence: the list of [start, end] ranges
    seq_hist,   \* the last two include/exclude calls: [op, a, b, pre]
    vol,        \* a volume: [seqno: Seqno._value, store: directory -> guid -> record]
    vol_now,    \* time.time() as seen by the volume
    vol_blobs,  \* set_blob calls that took their seqno and still read their stream
    vol_last,   \* the last Directory call: [op, dir, guid, props, seqno]
    iq,         \* index_queue._Queue: [queue, seqno, endtime]
    iq_now,     \* time.time() as seen by the queue
    iq_popped,  \* the write thread is between pop_start() and pop_done()
    iq_waiting, \* a caller is inside _Queue.wait()
    iw,         \* the IndexWriter: [pending, committed] sets of GUIDs
    px,         \* IndexProxy objects: proxy -> [commit_seqno, cache_seqno, pages]
    px_stored,  \* proxy -> the GUIDs whose store() has returned
    fd,         \* one _CachedPage.find call: its inputs, its total and its iterator
    df,         \* one Volume.diff(in_seq, packet) call and the packet it writes
    sy,         \* a master and a satellite: volumes, sequences, cookie
    dd,         \* a directory's index and one Directory.diff(accept_range, limit) call
    rs,         \* the property files of one record and the call writing them
    pp,         \* records, the index and its mtime file across a crash and populate()
    mp,         \* the master's volume, the last push request and its response
    pl,         \* the _Pull of one cookie in _pull_queue and the last pull response
    ev,         \* the events published on the bus and the SSE subscribers
    nc,         \* the documents of a node and the response to the last command
    cp,         \* the registered commands of one scope and the last call
    rt,         \* the users, the router's authenticated set and the last response
    pk,         \* an OutPacket, the pushes made on it and what InPacket reads from it
    cw,         \* the IndexWriter's pending updates and its commit task
    wt,         \* the write queue, its thread and a stop() call
    vd,         \* Volume.diff of documents with BLOBs
    sq,         \* the seqno counter file across restarts
    im,         \* importing packets on the satellite
    sd,         \* the seeder's index of files
    ss,         \* synchronization sessions of the satellite
    lw          \* waiting for room in the write queue

seqVars == <<seq, seq_hist>>

volVars == <<vol, vol_now, vol_blobs, vol_last>>

pxVars == <<iq, iq_now, iq_popped, iq_waiting, iw, px, px_stored>>

vars == <<seq, seq_hist, vol, vol_now, vol_blobs, vol_last,
          iq, iq_now, iq_popped, iq_waiting, iw, px, px_stored, fd, df, sy,
          dd, rs, pp, mp, pl, ev, nc, cp, rt, pk, cw, wt, vd, sq, im, sd, ss, lw>>

\* the variables of the components that follow the exchange
extVars == <<dd, rs, pp, mp, pl, ev, nc, cp, rt, pk, cw, wt, vd, sq, im, sd, ss, lw>>

\* the variables of the other components, left alone by a component's actions
notSeqVars == <<volVars, pxVars, fd, df, sy, extVars>>

notVolVars == <<seqVars, pxVars, fd, df, sy, extVars>>

notPxVars == <<seqVars, volVars, fd, df, sy, extVars>>

notFdVars == <<seqVars, volVars, pxVars, df, sy, extVars>>

notDfVars == <<seqVars, volVars, pxVars, fd, sy, extVars>>

notSyVars == <<seqVars, volVars, pxVars, fd, df, extVars>>

coreVars == <<seqVars, volVars, pxVars, fd, df, sy>>

notDdVars == <<coreVars, rs, pp, mp, pl, ev, nc, cp, rt, pk, cw, wt, vd, sq, im, sd, ss, lw>>

notRsVars == <<coreVars, dd, pp, mp, pl, ev, nc, cp, rt, pk, cw, wt, vd, sq, im, sd, ss, lw>>

notPpVars == <<coreVars, dd, rs, mp, pl, ev, nc, cp, rt, pk, cw, wt, vd, sq, im, sd, ss, lw>>

notMpVars == <<coreVars, dd, rs, pp, pl, ev, nc, cp, rt, pk, cw, wt, vd, sq, im, sd, ss, lw>>

notPlVars == <<coreVars, dd, rs, pp, mp, ev, nc, cp, rt, pk, cw, wt, vd, sq, im, sd, ss, lw>>

notEvVars == <<coreVars, dd, rs, pp, mp, pl, nc, cp, rt, pk, cw, wt, vd, sq, im, sd, ss, lw>>

notNcVars == <<coreVars, dd, rs, pp, mp, pl, ev, cp, rt, pk, cw, wt, vd, sq, im, sd, ss, lw>>

notCpVars == <<coreVars, dd, rs, pp, mp, pl, ev, nc, rt, pk, cw, wt, vd, sq, im, sd, ss, lw>>

notRtVars == <<coreVars, dd, rs, pp, mp, pl, ev, nc, cp, pk, cw, wt, vd, sq, im, sd, ss, lw>>

notPkVars == <<coreVars, dd, rs, pp, mp, pl, ev, nc, cp, rt, cw, wt, vd, sq, im, sd, ss, lw>>

notCwVars == <<coreVars, dd, rs, pp, mp, pl, ev, nc, cp, rt, pk, wt, vd, sq, im, sd, ss, lw>>

notWtVars == <<coreVars, dd, rs, pp, mp, pl, ev, nc, cp, rt, pk, cw, vd, sq, im, sd, ss, lw>>

notVdVars == <<coreVars, dd, rs, pp, mp, pl, ev, nc, cp, rt, pk, cw, wt, sq, im, sd, ss, lw>>

notSqVars == <<coreVars, dd, rs, pp, mp, pl, ev, nc, cp, rt, pk, cw, wt, vd, im, sd, ss, lw>>

notImVars == <<coreVars, dd, rs, pp, mp, pl, ev, nc, cp, rt, pk, cw, wt, vd, sq, sd, ss, lw>>

notSdVars == <<coreVars, dd, rs, pp, mp, pl, ev, nc, cp, rt, pk, cw, wt, vd, sq, im, ss, lw>>

notSsVars == <<coreVars, dd, rs, pp, mp, pl, ev, nc, cp, rt, pk, cw, wt, vd, sq, im, sd, lw>>

notLwVars == <<coreVars, dd, rs, pp, mp, pl, ev, nc, cp, rt, pk, cw, wt, vd, sq, im, sd, ss>>

\* left alone by the pull actions that start or end the generation
notPlDfVars == <<seqVars, volVars, pxVars, fd, sy, dd, rs, pp, mp, ev, nc, cp, rt, pk, cw, wt, vd, sq, im, sd, ss, lw>>

(***************************************************************************)
(* Shared helpers                                                          *)
(***************************************************************************)

\* Python's None where an integer is expected (range ends, missing values)
None == -1

Min2(x, y) == IF x <= y THEN x ELSE y

Max2(x, y) == IF x >= y THEN x ELSE y

MinOf(S) == CHOOSE x \in S : \A y \in S : x <= y

(***************************************************************************)
(* A. Sequence  (sugar_network/toolkit/collection.py)                      *)
(***************************************************************************)

\* Largest integer used as a range bound in include/exclude calls
MaxInt == 4

\* Sequence.__contains__
Sequence_contains(s, value) ==
    \E i \in 1..Len(s) :
        value >= s[i][1] /\ (s[i][2] = None \/ value <= s[i][2])

\* Sequence._include: first loop, the index the loop stops at (1-based);
\* Len(s) + 1 when the loop runs to its end
IncludeBreakAbove(s, i, range_end) ==
    range_end # None /\ s[i][1] - 1 > range_end

IncludeTouches(s, i, range_start, range_end) ==
    /\ (range_end = None \/ s[i][1] - 1 <= range_end)
    /\ (s[i][2] = None \/ s[i][2] + 1 >= range_start)

\* Sequence._include forgetting min(): the merged range starts at range_start
Sequence_include_noMin(s, range_start, range_end) ==
    LET stops == {i \in 1..Len(s) :
                    \/ IncludeBreakAbove(s, i, range_end)
                    \/ IncludeTouches(s, i, range_start, range_end)}
        range_start_i == IF stops = {} THEN Len(s) + 1 ELSE MinOf(stops)
        found == stops # {} /\ ~IncludeBreakAbove(s, range_start_i, range_end)
    IN  IF ~found
        THEN SubSeq(s, 1, range_start_i - 1)
                \o << <<range_start, range_end>> >>
                \o SubSeq(s, range_start_i, Len(s))
        ELSE
            LET above == {j \in range_start_i..Len(s) :
                            IncludeBreakAbove(s, j, range_end)}
                range_end_i == IF above = {} THEN Len(s) ELSE MinOf(above) - 1
                range_end_new ==
                    IF range_end = None \/ s[range_end_i][2] = None
                    THEN None
                    ELSE Max2(s[range_end_i][2], range_end)
            IN  SubSeq(s, 1, range_start_i - 1)
                    \o << <<range_start, range_end_new>> >>
                    \o SubSeq(s, range_end_i + 1, Len(s))

\* Sequence._include
Sequence_include(s, range_start, range_end) ==
    LET stops == {i \in 1..Len(s) :
                    \/ IncludeBreakAbove(s, i, range_end)
                    \/ IncludeTouches(s, i, range_start, range_end)}
        range_start_i == IF stops = {} THEN Len(s) + 1 ELSE MinOf(stops)
        found == stops # {} /\ ~IncludeBreakAbove(s, range_start_i, range_end)
    IN  IF ~found
        THEN SubSeq(s, 1, range_start_i - 1)
                \o << <<range_start, range_end>> >>
                \o SubSeq(s, range_start_i, Len(s))
        ELSE
            LET range_start_new == Min2(s[range_start_i][1], range_start)
                above == {j \in range_start_i..Len(s) :
                            IncludeBreakAbove(s, j, range_end)}
                range_end_i == IF above = {} THEN Len(s) ELSE MinOf(above) - 1
                range_end_new ==
                    IF range_end = None \/ s[range_end_i][2] = None
                    THEN None
                    ELSE Max2(s[range_end_i][2], range_end)
            IN  SubSeq(s, 1, range_start_i - 1)
                    \o << <<range_start_new, range_end_new>> >>
                    \o SubSeq(s, range_end_i + 1, Len(s))

RECURSIVE Sequence_exclude(_, _, _)
\* Sequence._exclude cutting an interval one integer too late: the lower
\* remainder keeps range_start
Sequence_exclude_keepsStart(s, range_start, range_end) ==
    LET hits == {i \in 1..Len(s) : ~(s[i][2] # None /\ s[i][2] < range_start)}
    IN  IF hits = {} THEN s
        ELSE
            LET i == MinOf(hits)
                start == s[i][1]
                end == s[i][2]
                head == SubSeq(s, 1, i - 1)
                tail == SubSeq(s, i + 1, Len(s))
                s1 == IF end = None \/ end > range_end
                      THEN head
                           \o (IF start < range_start
                               THEN << <<start, range_start>> >>
                               ELSE << >>)
                           \o << <<range_end + 1, end>> >> \o tail
                      ELSE head
                           \o (IF start < range_start
                               THEN << <<start, range_start>> >>
                               ELSE << >>)
                           \o tail
            IN  IF end # None /\ end + 1 < range_end
                THEN Sequence_exclude(s1, end + 1, range_end)
                ELSE s1

\* Sequence._exclude
Sequence_exclude(s, range_start, range_end) ==
    LET hits == {i \in 1..Len(s) : ~(s[i][2] # None /\ s[i][2] < range_start)}
    IN  IF hits = {} THEN s
        ELSE
            LET i == MinOf(hits)
                start == s[i][1]
                end == s[i][2]
                head == SubSeq(s, 1, i - 1)
                tail == SubSeq(s, i + 1, Len(s))
                s1 == IF end = None \/ end > range_end
                      THEN head
                           \o (IF start < range_start
                               THEN << <<start, range_start - 1>> >>
                               ELSE << >>)
                           \o << <<range_end + 1, end>> >> \o tail
                      ELSE head
                           \o (IF start < range_start
                               THEN << <<start, range_start - 1>> >>
                               ELSE << >>)
                           \o tail
            IN  IF end # None /\ end + 1 < range_end
                THEN Sequence_exclude(s1, end + 1, range_end)
                ELSE s1

\* Sequence.include(start, end) / Sequence.exclude(start, end) with a list
\* of ranges as the first argument: one call per range, in order
RECURSIVE Sequence_include_all(_, _)
Sequence_include_all(s, ranges) ==
    IF ranges = << >> THEN s
    ELSE Sequence_include_all(
            Sequence_include(s, IF ranges[1][1] = None THEN 1 ELSE ranges[1][1],
                             ranges[1][2]),
            Tail(ranges))

RECURSIVE Sequence_exclude_all(_, _)
Sequence_exclude_all(s, ranges) ==
    IF ranges = << >> THEN s
    ELSE Sequence_exclude_all(
            Sequence_exclude(s, ranges[1][1], ranges[1][2]), Tail(ranges))

\* Sequence.last
Sequence_last(s) == IF s # << >> THEN s[Len(s)][2] ELSE None

\* Sequence.floor without `del self[i:]`
Sequence_floor_keepsAbove(s, end) ==
    LET stops == {i \in 1..Len(s) :
                    s[i][1] > end \/ s[i][2] = None \/ s[i][2] >= end}
    IN  IF stops = {} THEN s
        ELSE LET i == MinOf(stops)
             IN  IF s[i][1] > end THEN s
                 ELSE SubSeq(s, 1, i - 1) \o << <<s[i][1], end>> >>
                        \o SubSeq(s, i + 1, Len(s))

\* Sequence.floor
Sequence_floor(s, end) ==
    LET stops == {i \in 1..Len(s) :
                    s[i][1] > end \/ s[i][2] = None \/ s[i][2] >= end}
    IN  IF stops = {} THEN s
        ELSE LET i == MinOf(stops)
             IN  IF s[i][1] > end THEN SubSeq(s, 1, i - 1)
                 ELSE Append(SubSeq(s, 1, i - 1), <<s[i][1], end>>)

SeqPush(h, e) == IF Len(h) < 2 THEN Append(h, e) ELSE <<h[2], e>>

SeqInit ==
    /\ seq \in {<< >>, << <<1, None>> >>}
    /\ seq_hist = << >>

SeqIdle ==
    /\ seq = << >>
    /\ seq_hist = << >>

\* seq.include(a, b), b possibly open-ended
SeqInclude ==
    \E a \in 1..MaxInt : \E b \in (a..MaxInt) \cup {None} :
        /\ seq' = Sequence_include(seq, a, b)
        /\ seq_hist' = SeqPush(seq_hist,
                               [op |-> "include", a |-> a, b |-> b, pre |-> seq])
        /\ UNCHANGED notSeqVars

\* seq.exclude(a, b); the enforce() calls reject b = None, a > b and a <= 0
SeqExclude ==
    \E a \in 1..MaxInt : \E b \in a..MaxInt :
        /\ seq' = Sequence_exclude(seq, a, b)
        /\ seq_hist' = SeqPush(seq_hist,
                               [op |-> "exclude", a |-> a, b |-> b, pre |-> seq])
        /\ UNCHANGED notSeqVars

SeqNext ==
    \/ SeqInclude
    \/ SeqExclude

\* seq.floor(n)
SeqFloor ==
    \E n \in 0..MaxInt :
        /\ seq' = Sequence_floor(seq, n)
        /\ seq_hist' = <<[op |-> "floor", a |-> n, b |-> n, pre |-> seq]>>
        /\ UNCHANGED notSeqVars

\* seq.include(a, b) and seq.exclude(a, b), remembering the last call only
SeqIncludeLast ==
    \E a \in 1..MaxInt : \E b \in (a..MaxInt) \cup {None} :
        /\ seq' = Sequence_include(seq, a, b)
        /\ seq_hist' = <<[op |-> "include", a |-> a, b |-> b, pre |-> seq]>>
        /\ UNCHANGED notSeqVars

SeqExcludeLast ==
    \E a \in 1..MaxInt : \E b \in a..MaxInt :
        /\ seq' = Sequence_exclude(seq, a, b)
        /\ seq_hist' = <<[op |-> "exclude", a |-> a, b |-> b, pre |-> seq]>>
        /\ UNCHANGED notSeqVars

\* include, exclude and floor calls in any order
SeqFloorNext ==
    \/ SeqIncludeLast
    \/ SeqExcludeLast
    \/ SeqFloor

\* the integers a claim about membership looks at
SeqDomain == 1..(MaxInt + 2)

SeqLast == seq_hist[Len(seq_hist)]

InRange(x, a, b) == x >= a /\ (b = None \/ x <= b)

\* C6: after include(a, b), x is contained iff a <= x <= b or x was
\* contained before the call
C6_IncludeContains ==
    (seq_hist # << >> /\ SeqLast.op = "include") =>
        \A x \in SeqDomain :
            Sequence_contains(seq, x) <=>
                (InRange(x, SeqLast.a, SeqLast.b)
                    \/ Sequence_contains(SeqLast.pre, x))

\* C6 witness: an include that merged with stored ranges and kept others
C6_Witness ==
    /\ seq_hist # << >>
    /\ SeqLast.op = "include"
    /\ Len(SeqLast.pre) >= 2
    /\ Len(seq) < Len(SeqLast.pre)
    /\ \E x \in SeqDomain : Sequence_contains(seq, x)
                               /\ ~Sequence_contains(SeqLast.pre, x)

\* C7: after exclude(a, b), x is contained iff it was contained before and
\* is not in [a, b]
C7_ExcludeContains ==
    (seq_hist # << >> /\ SeqLast.op = "exclude") =>
        \A x \in SeqDomain :
            Sequence_contains(seq, x) <=>
                (Sequence_contains(SeqLast.pre, x)
                    /\ ~InRange(x, SeqLast.a, SeqLast.b))

\* C8 as stated: include(a, b) followed by exclude(a, b) restores the
\* sequence, for every bounded range
C8_IncludeExcludeRestores ==
    (/\ Len(seq_hist) = 2
     /\ seq_hist[1].op = "include" /\ seq_hist[2].op = "exclude"
     /\ seq_hist[1].b # None
     /\ seq_hist[1].a = seq_hist[2].a /\ seq_hist[1].b = seq_hist[2].b)
        => seq = seq_hist[1].pre

\* C8 amended: include(a, b) followed by exclude(a, b) restores every
\* sequence that contained no integer of [a, b]
C8_IncludeExcludeRestoresDisjoint ==
    (/\ Len(seq_hist) = 2
     /\ seq_hist[1].op = "include" /\ seq_hist[2].op = "exclude"
     /\ seq_hist[1].b # None
     /\ seq_hist[1].a = seq_hist[2].a /\ seq_hist[1].b = seq_hist[2].b
     /\ \A x \in seq_hist[1].a..seq_hist[1].b :
            ~Sequence_contains(seq_hist[1].pre, x))
        => seq = seq_hist[1].pre

\* C8 witness: the round trip on a non-empty sequence adjacent to the range
C8_Witness ==
    /\ Len(seq_hist) = 2
    /\ seq_hist[1].op = "include" /\ seq_hist[2].op = "exclude"
    /\ seq_hist[1].b # None
    /\ seq_hist[1].a = seq_hist[2].a /\ seq_hist[1].b = seq_hist[2].b
    /\ \A x \in seq_hist[1].a..seq_hist[1].b :
            ~Sequence_contains(seq_hist[1].pre, x)
    /\ Len(seq_hist[1].pre) >= 1
    /\ Len(seq_hist[2].pre) = Len(seq_hist[1].pre)
    /\ seq = seq_hist[1].pre

\* the stored ranges are ascending, disjoint and not adjacent, each with
\* start <= end, and only the last one may be open-ended
Sequence_wellformed(s) ==
    /\ \A i \in 1..Len(s) :
            /\ s[i][1] >= 1
            /\ s[i][2] = None \/ s[i][1] <= s[i][2]
            /\ s[i][2] = None => i = Len(s)
    /\ \A i \in 1..(Len(s) - 1) : s[i][2] + 1 < s[i + 1][1]

\* C33: after any include, exclude and floor calls on an empty sequence or
\* on [[1, open]] the stored ranges are ascending, disjoint, not adjacent,
\* each with start <= end, only the last may be open-ended; after floor(n)
\* an integer is contained iff it was contained before and is <= n.
C33_WellFormed ==
    /\ Sequence_wellformed(seq)
    /\ (seq_hist # << >> /\ SeqLast.op = "floor") =>
            \A x \in SeqDomain :
                Sequence_contains(seq, x) <=>
                    (Sequence_contains(SeqLast.pre, x) /\ x <= SeqLast.a)

\* a floor that cut a stored range and dropped the ranges above it
C33_Witness ==
    /\ seq_hist # << >>
    /\ SeqLast.op = "floor"
    /\ Len(SeqLast.pre) >= 2
    /\ Len(seq) < Len(SeqLast.pre)
    /\ seq # << >>
    /\ seq[Len(seq)][2] = SeqLast.a
    /\ SeqLast.pre[Len(seq)][2] # SeqLast.a

(***************************************************************************)
(* B/F/G. Record store, Directory and Volume  (active_document)            *)
(***************************************************************************)

\* Largest value the volume's seqno counter takes: the number of calls that
\* take a seqno in one run
MaxSeqno == 2

\* Largest value of the clock and of the mtimes carried by merged diffs
MaxTime == 2

Dirs == {"context", "user"}

Guids == {"g1"}

Langs == {"en", "fr"}

\* env.DEFAULT_LANG
DEFAULT_LANG == "en"

Strs == {"x", "y"}

\* The document class of the model: guid and seqno (built in), a localized
\* stored property, a plain stored property with a default, and a BLOB
StoredProps == {"guid", "seqno", "title", "tags"}

LocalizedProps == {"title"}

BlobProps == {"preview"}

AllProps == StoredProps \cup BlobProps

ClassProps == {"title", "tags"}

\* Property values: None, a string, an integer, or a language -> string map
NoMap == [l \in Langs |-> "-"]

NoneV == [t |-> "none", s |-> "", n |-> 0, m |-> NoMap]

StrV(x) == [t |-> "str", s |-> x, n |-> 0, m |-> NoMap]

IntV(k) == [t |-> "int", s |-> "", n |-> k, m |-> NoMap]

MapV(f) == [t |-> "map", s |-> "", n |-> 0, m |-> f]

\* dict.update
MapUpdate(old, new) == [l \in Langs |-> IF new[l] # "-" THEN new[l] ELSE old[l]]

\* StoredProperty.default
PropDefault(name) ==
    CASE name = "seqno" -> IntV(0)
      [] name = "tags" -> StrV("d")
      [] OTHER -> NoneV

\* A property file: pickled meta plus the file's own mtime (PropertyMeta)
NoMeta == [exists |-> FALSE, value |-> NoneV, seqno |-> None, mtime |-> None]

NoRecord == [p \in AllProps |-> NoMeta]

\* Record.exists: the record's directory was created by a first write
Record_exists(rec) == \E p \in AllProps : rec[p].exists

\* Record.consistent: the guid marker file exists
Record_consistent(rec) == rec["guid"].exists

\* Record.set: the file gets the explicit mtime, or the time of the write
Record_set(rec, prop, value, seqno, mtime, now) ==
    [rec EXCEPT ![prop] = [exists |-> TRUE, value |-> value, seqno |-> seqno,
                           mtime |-> IF mtime # None /\ mtime # 0
                                     THEN mtime ELSE now]]

\* Seqno.next with the increment lost
Seqno_next_noIncrement(value) == value

\* Seqno.next
Seqno_next(value) == value + 1

\* dict.get on the properties passed to a call
PropsGet(props, name) == IF name \in DOMAIN props THEN props[name] ELSE NoneV

\* Python truth of a seqno value: None and 0 are false
SeqnoGiven(v) == v.t = "int" /\ v.n # 0

\* Directory._pre_store: does it take a new seqno
PreStoreDraws(changes, increment_seqno) ==
    increment_seqno /\ ~SeqnoGiven(PropsGet(changes, "seqno"))

\* Directory._pre_store: the seqno stamped on the files it writes
PreStoreSeqno(v, changes, increment_seqno) ==
    IF PreStoreDraws(changes, increment_seqno) THEN Seqno_next(v.seqno)
    ELSE IF PropsGet(changes, "seqno").t = "int"
         THEN PropsGet(changes, "seqno").n ELSE None

\* Directory._pre_store, localized branch: a scalar becomes the default
\* language entry, and a stored map is updated with the new entries
PreStoreLocalized(value, existed, meta) ==
    LET asmap == IF value.t = "map" THEN value.m
                 ELSE [NoMap EXCEPT ![DEFAULT_LANG] = value.s]
    IN  IF existed /\ meta.exists /\ meta.value.t = "map"
        THEN MapV(MapUpdate(meta.value.m, asmap))
        ELSE MapV(asmap)

\* Directory._pre_store that overwrites a localized value instead of merging
Directory_pre_store_noFrame(v, d, g, changes, increment_seqno, now) ==
    LET rec == v.store[d][g]
        seqno == PreStoreSeqno(v, changes, increment_seqno)
        ch == IF PreStoreDraws(changes, increment_seqno)
              THEN [p \in DOMAIN changes \cup {"seqno"} |->
                        IF p = "seqno" THEN IntV(seqno) ELSE changes[p]]
              ELSE changes
        newrec == [p \in AllProps |->
                    IF p \in StoredProps
                    THEN [exists |-> TRUE,
                          value |-> IF PropsGet(ch, p).t # "none"
                                    THEN PropsGet(ch, p) ELSE rec[p].value,
                          seqno |-> seqno, mtime |-> now]
                    ELSE rec[p]]
    IN  [seqno |-> IF PreStoreDraws(changes, increment_seqno)
                   THEN seqno ELSE v.seqno,
         store |-> [v.store EXCEPT ![d][g] = newrec]]

\* Directory._pre_store: only the stored properties with a value other than
\* None in `changes` are written, each stamped with the call's seqno
Directory_pre_store(v, d, g, changes, increment_seqno, now) ==
    LET rec == v.store[d][g]
        existed == Record_exists(rec)
        seqno == PreStoreSeqno(v, changes, increment_seqno)
        ch == IF PreStoreDraws(changes, increment_seqno)
              THEN [p \in DOMAIN changes \cup {"seqno"} |->
                        IF p = "seqno" THEN IntV(seqno) ELSE changes[p]]
              ELSE changes
        newrec == [p \in AllProps |->
                    IF p \in StoredProps /\ PropsGet(ch, p).t # "none"
                    THEN [exists |-> TRUE,
                          value |-> IF p \in LocalizedProps
                                    THEN PreStoreLocalized(ch[p], existed, rec[p])
                                    ELSE ch[p],
                          seqno |-> seqno, mtime |-> now]
                    ELSE rec[p]]
    IN  [seqno |-> IF PreStoreDraws(changes, increment_seqno)
                   THEN seqno ELSE v.seqno,
         store |-> [v.store EXCEPT ![d][g] = newrec]]

\* Directory.create: the properties with the defaults filled in
CreateProps(g, props) ==
    [p \in StoredProps |->
        IF p = "guid" THEN StrV(g)
        ELSE IF p \in DOMAIN props THEN props[p] ELSE PropDefault(p)]

\* Directory.create -> _post -> IndexWriter.store -> _pre_store
Directory_create(v, d, g, props, now) ==
    Directory_pre_store(v, d, g, CreateProps(g, props), TRUE, now)

\* Directory.update -> _post -> IndexWriter.store -> _pre_store
Directory_update(v, d, g, props, now) ==
    IF DOMAIN props = {} THEN v
    ELSE Directory_pre_store(v, d, g, props, TRUE, now)

\* Directory.set_blob after `seqno = self._seqno.next()`: the BLOB's meta
\* file is written, and if the record is consistent the document seqno is
\* stamped through _post(guid, {'seqno': seqno}, False)
Directory_set_blob_write(v, d, g, prop, data, seqno, now) ==
    LET rec1 == Record_set(v.store[d][g], prop, StrV(data), seqno, None, now)
        v1 == [v EXCEPT !.store[d][g] = rec1]
    IN  IF Record_consistent(rec1)
        THEN Directory_pre_store(v1, d, g, [p \in {"seqno"} |-> IntV(seqno)],
                                 TRUE, now)
        ELSE v1

\* Directory.merge taking an incoming property of equal mtime too
MergeAccepts_orEqual(rec, diff, p) ==
    /\ p \in DOMAIN diff
    /\ ~(rec[p].exists /\ rec[p].mtime > diff[p].mtime)

\* Directory.merge: is the incoming property taken
MergeAccepts(rec, diff, p) ==
    /\ p \in DOMAIN diff
    /\ ~(rec[p].exists /\ rec[p].mtime >= diff[p].mtime)

\* Directory.merge: the seqno it returns (None when nothing was taken or
\* increment_seqno is false)
Directory_merge_seqno(v, d, g, diff, increment_seqno) ==
    IF increment_seqno /\ \E p \in DOMAIN diff : MergeAccepts(v.store[d][g], diff, p)
    THEN Seqno_next(v.seqno) ELSE None

\* Directory.merge
Directory_merge(v, d, g, diff, increment_seqno, now) ==
    LET rec == v.store[d][g]
        merged == \E p \in DOMAIN diff : MergeAccepts(rec, diff, p)
        seqno == Directory_merge_seqno(v, d, g, diff, increment_seqno)
        rec1 == [p \in AllProps |->
                    IF MergeAccepts(rec, diff, p)
                    THEN [exists |-> TRUE,
                          value |-> diff[p].value,
                          seqno |-> IF increment_seqno THEN seqno
                                    ELSE IF rec[p].exists /\ rec[p].seqno # None
                                         THEN rec[p].seqno ELSE 0,
                          mtime |-> IF diff[p].mtime # 0
                                    THEN diff[p].mtime ELSE now]
                    ELSE rec[p]]
        v1 == [seqno |-> IF seqno # None THEN seqno ELSE v.seqno,
               store |-> [v.store EXCEPT ![d][g] = rec1]]
    IN  IF merged /\ Record_consistent(rec1)
        THEN Directory_pre_store(v1, d, g,
                IF seqno # None THEN [p \in {"seqno"} |-> IntV(seqno)]
                ELSE [p \in {} |-> NoneV],
                FALSE, now)
        ELSE v1

\* Document.get on the document Directory.get returns (no cached properties)
Document_get(v, d, g, name) ==
    IF v.store[d][g][name].exists THEN v.store[d][g][name].value ELSE NoneV

(* ---- inputs of the volume specification ---- *)

TitleInputs == {StrV("x"), MapV([NoMap EXCEPT !["fr"] = "y"])}

TagsInputs == {StrV("x")}

\* properties a caller passes to create: title is required, tags has a
\* default
CreateInputs == {[p \in {"title"} |-> t] : t \in TitleInputs}

\* properties a caller passes to update: any subset of the class
\* properties, a named property possibly None
UpdateInputs ==
    {[p \in {"title"} |-> t] : t \in TitleInputs \cup {NoneV}}
    \cup {[p \in {"tags"} |-> t] : t \in TagsInputs \cup {NoneV}}
    \cup {[p \in {"title", "tags"} |-> StrV("x")]}
    \cup {[p \in {} |-> NoneV]}

\* diffs a peer sends for one document: a whole new document, or one
\* changed property
MergeInputs ==
    {[p \in {"guid", "title", "tags"} |->
        [value |-> CASE p = "guid" -> StrV(g)
                     [] p = "title" -> MapV([NoMap EXCEPT !["en"] = "y"])
                     [] OTHER -> StrV("d"),
         mtime |-> t]] : g \in Guids, t \in 1..MaxTime}
    \cup {[p \in {"tags"} |-> [value |-> StrV("y"), mtime |-> t]] :
            t \in 1..MaxTime}

\* content of the stream passed to set_blob
BlobInputs == {"x"}

NoLast == [op |-> "none", dir |-> "", guid |-> "", props |-> [p \in {} |-> NoneV],
           seqno |-> None]

VolInit ==
    /\ vol = [seqno |-> 0, store |-> [d \in Dirs |-> [g \in Guids |-> NoRecord]]]
    /\ vol_now = 1
    /\ vol_blobs = {}
    /\ vol_last = NoLast

VolIdle == VolInit

\* the clock advances between calls
VolTick ==
    /\ vol_now < MaxTime
    /\ vol_now' = vol_now + 1
    /\ UNCHANGED <<vol, vol_blobs, vol_last, notVolVars>>

\* Directory.create(props); a GUID is generated fresh or passed, and must
\* not name a consistent record
VolCreate ==
    \E d \in Dirs, g \in Guids, props \in CreateInputs :
        /\ vol.seqno < MaxSeqno
        /\ ~Record_consistent(vol.store[d][g])
        /\ vol' = Directory_create(vol, d, g, props, vol_now)
        /\ vol_last' = [op |-> "create", dir |-> d, guid |-> g, props |-> props,
                        seqno |-> vol'.seqno]
        /\ UNCHANGED <<vol_now, vol_blobs, notVolVars>>

\* Directory.update(guid, props)
VolUpdate ==
    \E d \in Dirs, g \in Guids, props \in UpdateInputs :
        /\ vol.seqno < MaxSeqno
        /\ vol' = Directory_update(vol, d, g, props, vol_now)
        /\ vol_last' = [op |-> "update", dir |-> d, guid |-> g, props |-> props,
                        seqno |-> IF vol'.seqno # vol.seqno
                                  THEN vol'.seqno ELSE None]
        /\ UNCHANGED <<vol_now, vol_blobs, notVolVars>>

\* Directory.set_blob up to the stream read: the seqno is taken first (one
\* call at a time is followed through its stream read)
VolSetBlobStart ==
    \E d \in Dirs, g \in Guids, data \in BlobInputs :
        /\ vol.seqno < MaxSeqno
        /\ vol_blobs = {}
        /\ vol' = [vol EXCEPT !.seqno = Seqno_next(vol.seqno)]
        /\ vol_blobs' = vol_blobs \cup
                {[dir |-> d, guid |-> g, data |-> data, seqno |-> vol'.seqno]}
        /\ UNCHANGED <<vol_now, vol_last, notVolVars>>

\* Directory.set_blob from the end of the stream read
VolSetBlobFinish ==
    \E b \in vol_blobs :
        /\ vol' = Directory_set_blob_write(vol, b.dir, b.guid, "preview", b.data,
                                           b.seqno, vol_now)
        /\ vol_blobs' = vol_blobs \ {b}
        /\ vol_last' = [op |-> "set_blob", dir |-> b.dir, guid |-> b.guid,
                        props |-> [p \in {"preview"} |-> StrV(b.data)],
                        seqno |-> b.seqno]
        /\ UNCHANGED <<vol_now, notVolVars>>

\* Directory.merge(guid, diff, increment_seqno=True)
VolMerge ==
    \E d \in Dirs, g \in Guids, diff \in MergeInputs :
        /\ vol.seqno < MaxSeqno
        /\ "guid" \in DOMAIN diff => diff["guid"].value = StrV(g)
        /\ vol' = Directory_merge(vol, d, g, diff, TRUE, vol_now)
        /\ vol_last' = [op |-> "merge", dir |-> d, guid |-> g,
                        props |-> [p \in DOMAIN diff |-> diff[p].value],
                        seqno |-> Directory_merge_seqno(vol, d, g, diff, TRUE)]
        /\ UNCHANGED <<vol_now, vol_blobs, notVolVars>>

VolNext ==
    \/ VolTick
    \/ VolCreate
    \/ VolUpdate
    \/ VolSetBlobStart
    \/ VolSetBlobFinish
    \/ VolMerge

(* ---- claims about the volume ---- *)

\* the seqnos carried by the property files of the whole volume
StampedSeqnos(v) ==
    {v.store[f[1]][f[2]][f[3]].seqno :
        f \in {h \in Dirs \X Guids \X AllProps :
                    v.store[h[1]][h[2]][h[3]].exists}} \ {None}

\* the property files a step wrote
WrittenFiles ==
    {f \in Dirs \X Guids \X AllProps :
        vol'.store[f[1]][f[2]][f[3]] # vol.store[f[1]][f[2]][f[3]]}

\* C1: every create, update, set_blob and merge(increment_seqno=true), in
\* any directory of the volume, stamps a seqno strictly greater than every
\* seqno stamped by the operations before it: the seqno a call takes from
\* the shared counter is greater than every seqno stamped so far and every
\* seqno taken by a call still running, and the files a call writes carry
\* the seqno that call took.
C1_SeqnoStrictlyGreater ==
    [][/\ \A b \in vol_blobs' \ vol_blobs :
            /\ \A s \in StampedSeqnos(vol) : b.seqno > s
            /\ \A c \in vol_blobs : b.seqno > c.seqno
       /\ \A f \in WrittenFiles :
            LET s == vol'.store[f[1]][f[2]][f[3]].seqno
            IN  \/ \E b \in vol_blobs \ vol_blobs' : s = b.seqno
                \/ /\ s = vol'.seqno
                   /\ \A t \in StampedSeqnos(vol) : s > t
                   /\ \A b \in vol_blobs : s > b.seqno]_vars

\* two directories hold documents stamped by different calls, one of them
\* while a set_blob call that took its seqno earlier was still running
C1_Witness ==
    /\ Record_consistent(vol.store["context"]["g1"])
    /\ vol.store["context"]["g1"]["guid"].seqno = 2
    /\ vol.store["user"]["g1"]["preview"].exists
    /\ vol.store["user"]["g1"]["preview"].seqno = 1
    /\ vol_blobs = {}

\* the step is Directory.update(guid, props) on an existing document
IsUpdateOfExisting ==
    /\ vol_last'.op = "update"
    /\ vol' # vol
    /\ vol_blobs' = vol_blobs
    /\ Record_consistent(vol.store[vol_last'.dir][vol_last'.guid])

\* C9: after Directory.update(guid, p) on an existing document, get(guid)
\* returns the value given in p for every property named in p, and every
\* stored property not named in p (apart from seqno) keeps the value and
\* the per-property seqno it had before.
C9_UpdateFrame ==
    [][IsUpdateOfExisting =>
        LET d == vol_last'.dir
            g == vol_last'.guid
            props == vol_last'.props
        IN  /\ \A p \in DOMAIN props : Document_get(vol', d, g, p) = props[p]
            /\ \A p \in StoredProps \ (DOMAIN props \cup {"seqno"}) :
                /\ vol'.store[d][g][p].value = vol.store[d][g][p].value
                /\ vol'.store[d][g][p].seqno = vol.store[d][g][p].seqno]_vars

\* the language map a value given for a localized property stands for
AsLangMap(value) ==
    IF value.t = "map" THEN value.m ELSE [NoMap EXCEPT ![DEFAULT_LANG] = value.s]

\* C9 (amended): a property named in p with a value other than None reads
\* back as given if it is not localized, and as the stored language map
\* updated with the given entries if it is localized (a plain string being
\* the default-language entry); every other stored property, apart from
\* seqno, keeps its value and its per-property seqno.
C9_UpdateFrameLocalized ==
    [][IsUpdateOfExisting =>
        LET d == vol_last'.dir
            g == vol_last'.guid
            props == vol_last'.props
            named == {p \in DOMAIN props : props[p] # NoneV}
        IN  /\ \A p \in named \ LocalizedProps :
                /\ Document_get(vol', d, g, p) = props[p]
                /\ vol'.store[d][g][p].seqno = vol'.seqno
            /\ \A p \in named \cap LocalizedProps :
                /\ Document_get(vol', d, g, p) =
                     MapV([l \in Langs |->
                            IF AsLangMap(props[p])[l] # "-"
                            THEN AsLangMap(props[p])[l]
                            ELSE vol.store[d][g][p].value.m[l]])
                /\ vol'.store[d][g][p].seqno = vol'.seqno
            /\ \A p \in StoredProps \ (named \cup {"seqno"}) :
                /\ vol'.store[d][g][p].value = vol.store[d][g][p].value
                /\ vol'.store[d][g][p].seqno = vol.store[d][g][p].seqno]_vars

\* an update gave a plain string for the localized title of a document
\* stored with a French title, and left tags alone
C9_Witness ==
    \E d \in Dirs, g \in Guids :
        /\ vol_last = [op |-> "update", dir |-> d, guid |-> g,
                       props |-> [p \in {"title"} |-> StrV("x")], seqno |-> 2]
        /\ Record_consistent(vol.store[d][g])
        /\ vol.store[d][g]["title"].value =
                MapV([l \in Langs |-> IF l = "en" THEN "x" ELSE "y"])
        /\ vol.store[d][g]["title"].seqno = 2
        /\ vol.store[d][g]["tags"].value = StrV("d")
        /\ vol.store[d][g]["tags"].seqno = 1

\* the step is Directory.merge(g, diff) in directory d
IsMergeOf(d, g, diff) ==
    /\ vol_last'.op = "merge" /\ vol_last'.dir = d /\ vol_last'.guid = g
    /\ vol_last'.props = [p \in DOMAIN diff |-> diff[p].value]
    /\ vol' = Directory_merge(vol, d, g, diff, TRUE, vol_now)

\* the property file of p is the incoming one: its value and its mtime
MergedFile(d, g, diff, p) ==
    /\ vol'.store[d][g][p].exists
    /\ vol'.store[d][g][p].value = diff[p].value
    /\ vol'.store[d][g][p].mtime = diff[p].mtime

index_flush_threshold == 2

\* env.index_flush_timeout: seconds after which a commit is asked for
index_flush_timeout == 2

\* env.index_write_queue: queue length at which push() waits
index_write_queue == 2

\* Largest value of the queue's clock
MaxClock == 3

Proxies == {"A", "B"}

\* the documents the proxies create
PxGuids == {"g1", "g2", "g3"}

\* no _Queue._Seqno object for the document class yet
NoQSeqno ==
    [exists |-> FALSE, pending_seqno |-> 1, commit_seqno |-> 0, changes |-> 0,
     endtime |-> 0]

\* _Queue._Seqno.__init__
NewQSeqno(now) ==
    [exists |-> TRUE, pending_seqno |-> 1, commit_seqno |-> 0, changes |-> 0,
     endtime |-> now + index_flush_timeout]

\* _Queue._push without `if seqno.changes`: every asked commit is flagged
Queue_push_flagsAll(q, to_commit, op, guid, now) ==
    LET s0 == IF q.seqno.exists THEN q.seqno ELSE NewQSeqno(now)
        changes == IF op # "none" THEN s0.changes + 1 ELSE s0.changes
        expired == s0.endtime <= now
        flagged == to_commit \/ changes >= index_flush_threshold \/ expired
    IN  [q EXCEPT
            !.queue = Append(@, [op |-> op, guid |-> guid, to_commit |-> flagged]),
            !.seqno = [exists |-> TRUE,
                       pending_seqno |-> IF flagged THEN s0.pending_seqno + 1
                                         ELSE s0.pending_seqno,
                       commit_seqno |-> s0.commit_seqno,
                       changes |-> IF flagged THEN 0 ELSE changes,
                       endtime |-> IF expired THEN now + index_flush_timeout
                                   ELSE s0.endtime]]

\* _Queue._push; op is "store" or "none" (a commit-only entry)
Queue_push(q, to_commit, op, guid, now) ==
    LET s0 == IF q.seqno.exists THEN q.seqno ELSE NewQSeqno(now)
        changes == IF op # "none" THEN s0.changes + 1 ELSE s0.changes
        expired == s0.endtime <= now
        asked == to_commit \/ changes >= index_flush_threshold \/ expired
        flagged == asked /\ changes > 0
    IN  [q EXCEPT
            !.queue = Append(@, [op |-> op, guid |-> guid, to_commit |-> flagged]),
            !.seqno = [exists |-> TRUE,
                       pending_seqno |-> IF flagged THEN s0.pending_seqno + 1
                                         ELSE s0.pending_seqno,
                       commit_seqno |-> s0.commit_seqno,
                       changes |-> IF flagged THEN 0 ELSE changes,
                       endtime |-> IF expired THEN now + index_flush_timeout
                                   ELSE s0.endtime]]

Queue_pop_start_idle(q, now) ==
    IF q.endtime - now <= 0
    THEN [q EXCEPT !.endtime = now + index_flush_timeout]
    ELSE q

\* _Queue.pop_start up to the wait: when the queue's timer has run out, a
\* commit-only entry is pushed for the document class if its own timer has
\* run out too, and the queue's timer is set again
Queue_pop_start(q, now) ==
    IF q.endtime - now <= 0
    THEN [(IF q.seqno.exists /\ q.seqno.endtime <= now
           THEN Queue_push(q, TRUE, "none", "", now) ELSE q)
          EXCEPT !.endtime = now + index_flush_timeout]
    ELSE q

\* _Queue.pop_done
Queue_pop_done(q, to_commit) ==
    [q EXCEPT !.queue = Tail(@),
              !.seqno.commit_seqno = IF to_commit THEN @ + 1 ELSE @]

\* _Queue.commit_seqno
Queue_commit_seqno(q) == IF q.seqno.exists THEN q.seqno.commit_seqno ELSE 0

\* IndexProxy._drop_pages
IndexProxy_drop_pages(proxy, q) ==
    IF Queue_commit_seqno(q) = proxy.commit_seqno THEN proxy
    ELSE [proxy EXCEPT
            !.pages = [k \in {j \in DOMAIN proxy.pages : j > Queue_commit_seqno(q)}
                        |-> proxy.pages[k]],
            !.commit_seqno = Queue_commit_seqno(q)]

\* IndexProxy.store, the part before index_queue.put(): the document goes
\* into the page numbered _cache_seqno, created if missing
IndexProxy_store_page(proxy, guid) ==
    [proxy EXCEPT !.pages =
        [k \in DOMAIN proxy.pages \cup {proxy.cache_seqno} |->
            IF k = proxy.cache_seqno
            THEN (IF k \in DOMAIN proxy.pages THEN proxy.pages[k] ELSE {})
                    \cup {guid}
            ELSE proxy.pages[k]]]

\* IndexProxy._put after index_queue.put() returned new_cache_seqno
IndexProxy_put(proxy, new_cache_seqno) ==
    IF new_cache_seqno # proxy.cache_seqno
    THEN [proxy EXCEPT
            !.cache_seqno = new_cache_seqno,
            !.pages = [k \in DOMAIN proxy.pages \cup {new_cache_seqno} |->
                        IF k = new_cache_seqno THEN {} ELSE proxy.pages[k]]]
    ELSE proxy

\* the documents a proxy's find can return: the committed index and the
\* proxy's cache pages
IndexProxy_visible(p) ==
    iw.committed \cup UNION {px[p].pages[k] : k \in DOMAIN px[p].pages}

PxInit ==
    /\ iq = [queue |-> << >>, seqno |-> NoQSeqno, endtime |-> index_flush_timeout]
    /\ iq_now = 0
    /\ iq_popped = FALSE
    /\ iq_waiting = FALSE
    /\ iw = [pending |-> {}, committed |-> {}]
    /\ px = [p \in Proxies |->
                [commit_seqno |-> 0, cache_seqno |-> 1, pages |-> << >>]]
    /\ px_stored = [p \in Proxies |-> {}]

PxIdle == PxInit

\* time passes
QTick ==
    /\ iq_now < MaxClock
    /\ iq_now' = iq_now + 1
    /\ UNCHANGED <<iq, iq_popped, iq_waiting, iw, px, px_stored, notPxVars>>

\* IndexProxy.store(guid, props, new=True) of a new document; push() lets
\* the caller wait while the queue is full
PxStore(p) ==
    \E g \in PxGuids \ UNION {px_stored[r] : r \in Proxies} :
        /\ ~iq_waiting
        /\ Len(iq.queue) < index_write_queue
        /\ iq' = Queue_push(iq, FALSE, "store", g, iq_now)
        /\ px' = [px EXCEPT ![p] =
                    IndexProxy_put(IndexProxy_store_page(px[p], g),
                                   iq'.seqno.pending_seqno)]
        /\ px_stored' = [px_stored EXCEPT ![p] = @ \cup {g}]
        /\ UNCHANGED <<iq_now, iq_popped, iq_waiting, iw, notPxVars>>

\* IndexProxy.find / get_cached up to the index lookup: pages are dropped
PxFind(p) ==
    /\ ~iq_waiting
    /\ px' = [px EXCEPT ![p] = IndexProxy_drop_pages(px[p], iq)]
    /\ UNCHANGED <<iq, iq_now, iq_popped, iq_waiting, iw, px_stored, notPxVars>>

\* IndexProxy.commit: index_queue.commit_and_wait pushes a commit-only entry
\* and waits until the queue is empty
PxCommit(p) ==
    /\ ~iq_waiting
    /\ Len(iq.queue) < index_write_queue
    /\ iq' = Queue_push(iq, TRUE, "none", "", iq_now)
    /\ iq_waiting' = TRUE
    /\ UNCHANGED <<iq_now, iq_popped, iw, px, px_stored, notPxVars>>

\* _WriteThread._run: pop_start()
WriterPopStart ==
    /\ ~iq_popped
    /\ iq.queue # << >> \/ iq.endtime <= iq_now
    /\ iq' = Queue_pop_start(iq, iq_now)
    /\ iq_popped' = (iq'.queue # << >>)
    /\ UNCHANGED <<iq_now, iq_waiting, iw, px, px_stored, notPxVars>>

\* _WriteThread._run: op(writer), writer.commit() if flagged, pop_done()
WriterProcess ==
    /\ iq_popped
    /\ LET head == Head(iq.queue)
           written == IF head.op = "store" THEN iw.pending \cup {head.guid}
                      ELSE iw.pending
       IN  /\ iw' = IF head.to_commit
                    THEN [pending |-> {}, committed |-> iw.committed \cup written]
                    ELSE [iw EXCEPT !.pending = written]
           /\ iq' = Queue_pop_done(iq, head.to_commit)
    /\ iq_popped' = FALSE
    /\ iq_waiting' = (iq_waiting /\ iq'.queue # << >>)
    /\ UNCHANGED <<iq_now, px, px_stored, notPxVars>>

\* IndexWriter._commit_handler: the writer commits on its own, past the queue
WriterSelfCommit ==
    /\ iw.pending # {}
    /\ iw' = [pending |-> {}, committed |-> iw.committed \cup iw.pending]
    /\ UNCHANGED <<iq, iq_now, iq_popped, iq_waiting, px, px_stored, notPxVars>>

\* one proxy: stores and finds, commits come from the queue
ProxyNext ==
    \/ QTick
    \/ PxStore("A")
    \/ PxFind("A")
    \/ WriterPopStart
    \/ WriterProcess
    \/ WriterSelfCommit

\* two proxies: A stores and finds, B stores and commits
ProxiesNext ==
    \/ PxStore("A")
    \/ PxFind("A")
    \/ PxStore("B")
    \/ PxCommit("B")
    \/ WriterPopStart
    \/ WriterProcess
    \/ WriterSelfCommit

\* a second passes while the clock reading stays iq_now: the two timers,
\* kept as end times, come one second nearer (only their distance to the
\* clock is ever used, and a timer that has run out stays run out)
QElapse ==
    /\ iq.endtime > iq_now \/ (iq.seqno.exists /\ iq.seqno.endtime > iq_now)
    /\ iq' = [iq EXCEPT
                !.endtime = IF @ > iq_now THEN @ - 1 ELSE @,
                !.seqno.endtime = IF @ > iq_now THEN @ - 1 ELSE @]
    /\ UNCHANGED <<iq_now, iq_popped, iq_waiting, iw, px, px_stored, notPxVars>>

\* one proxy storing, the write thread, and time that never stops
FlushNext ==
    \/ QElapse
    \/ PxStore("A")
    \/ PxFind("A")
    \/ WriterPopStart
    \/ WriterProcess

\* time passes, and the write thread runs: its wait in pop_start ends when
\* an entry is queued or the timer has run out, and it handles what it took
FlushFairness ==
    /\ WF_vars(QElapse)
    /\ WF_vars(WriterPopStart)
    /\ WF_vars(WriterProcess)

(* ---- claims about the proxy ---- *)

\* C2: with one proxy, a document whose store(guid, props, new=True) has
\* returned is, at every later point, in the committed index or in one of
\* the proxy's remaining cache pages.
C2_StoredStaysVisible ==
    \A g \in px_stored["A"] : g \in IndexProxy_visible("A")

\* C3: with proxies A and B on one queue, every write A has stored is in
\* A's cache pages or in the committed index, whatever B stores and commits
\* and whatever the write thread does.
C3_StoredByAStaysVisible ==
    px_stored["A"] \subseteq IndexProxy_visible("A")

\* C27: in every reachable state the write queue holds at most
\* index_write_queue entries, the commit-only entries that pop_start puts in
\* when a flush timer has run out included.
C27_QueueBounded ==
    Len(iq.queue) <= index_write_queue

\* the commit-flagged entries still in the queue
QueueFlagged(q) == {i \in DOMAIN q.queue : q.queue[i].to_commit}

\* the step appends a commit-flagged entry to the queue
QueueFlags ==
    /\ Len(iq'.queue) > 0
    /\ iq'.seqno.pending_seqno = iq.seqno.pending_seqno + 1

\* C40: commit_seqno = pending_seqno - 1 - (commit-flagged entries still
\* queued) in every state; commit_seqno never decreases; a commit flag is
\* attached only when an operation was pushed since the previous flagged
\* entry; with index_flush_threshold > 0 the change counter stays below the
\* threshold.
C40_SeqnoAccounting ==
    /\ [](iq.seqno.commit_seqno =
            iq.seqno.pending_seqno - 1 - Cardinality(QueueFlagged(iq)))
    /\ [](iq.seqno.commit_seqno <= iq.seqno.pending_seqno - 1)
    /\ [](index_flush_threshold > 0 => iq.seqno.changes < index_flush_threshold)
    /\ [][/\ iq'.seqno.commit_seqno >= iq.seqno.commit_seqno
           /\ QueueFlags =>
                \/ iq.seqno.changes > 0
                \/ iq'.queue[Len(iq'.queue)].op = "store"]_vars

\* a commit was done and a second flagged entry waits in the queue
C40_Witness ==
    /\ iq.seqno.commit_seqno = 1
    /\ iq.seqno.pending_seqno = 3
    /\ Cardinality(QueueFlagged(iq)) = 1

\* the operation that stored g was committed: the writer has it in the
\* committed index and commit_seqno has reached the page it was cached under
PxCommitted(g) ==
    /\ g \in iw.committed
    /\ \A k \in DOMAIN px["A"].pages :
            g \in px["A"].pages[k] => Queue_commit_seqno(iq) >= k

\* C29: with index_flush_timeout > 0 and a running write thread, every
\* operation pushed for a document is eventually followed by a commit of
\* the document, commit_seqno reaching the page the operation was cached
\* under, even if nothing is pushed afterwards.
C29_PushedIsCommitted ==
    \A g \in PxGuids : (g \in px_stored["A"]) ~> PxCommitted(g)

\* a single store, below the threshold, committed by the timer
C29_Witness ==
    /\ Cardinality(px_stored["A"]) = 1
    /\ \A g \in px_stored["A"] : PxCommitted(g)
    /\ Queue_commit_seqno(iq) = 1
    /\ iq.queue = << >>

(***************************************************************************)
(* D. Find through a cache page  (index_proxy.py, index.py)                *)
(***************************************************************************)

\* Largest limit of a query
MaxLimit == 2

\* the values of the document class's one term property; "-" is no document
FdTerms == {"a", "b"}

\* the documents, in the order the index sorts them (by GUID)
FdOrder == <<"g1", "g2", "g3">>

FdGuids == {FdOrder[i] : i \in 1..Len(FdOrder)}

\* IndexReader.find for an exact-term request, offset 0: the first `limit`
\* matching documents and the exact number of matches, as the pair
\* (documents, total) that _CachedPage.find unpacks
IndexReader_find(disk, term, limit) ==
    LET Matches(g) == disk[g] = term
        all == SelectSeq(FdOrder, Matches)
    IN  [documents |-> SubSeq(all, 1, Min2(limit, Len(all))), total |-> Len(all)]

\* _CachedDocument.new: the document was stored with new=True
CachedNew(disk, g) == disk[g] = "-"

\* _CachedPage._patch_find for the request {term property: term}
CachedPage_patch_find(disk, cache, term) ==
    LET cached == {g \in FdGuids : cache[g] # "-"}
    IN  [adds |-> {g \in cached :
                    \/ CachedNew(disk, g) /\ cache[g] = term
                    \/ ~CachedNew(disk, g) /\ cache[g] = term /\ disk[g] # term},
         deletes |-> {g \in cached :
                    ~CachedNew(disk, g) /\ cache[g] # term /\ disk[g] = term},
         updates |-> {g \in cached :
                    ~CachedNew(disk, g) /\ cache[g] = term /\ disk[g] = term}]

\* _CachedPage.find up to `return patched_find(orig_limit), total`; with
\* nothing to patch the direct result is returned, which the same iterator
\* yields unchanged
CachedPage_find(disk, cache, term, limit) ==
    LET patch == CachedPage_patch_find(disk, cache, term)
        direct == IndexReader_find(disk, term, limit + Cardinality(patch.deletes))
    IN  [documents |-> direct.documents,
         total |-> direct.total + Cardinality(patch.adds),
         adds |-> patch.adds,
         deletes |-> patch.deletes,
         updates |-> patch.updates,
         orig_limit |-> limit]

\* the properties of a document in the snapshot the find is made on
FdOverlay(disk, cache, g) == IF cache[g] # "-" THEN cache[g] ELSE disk[g]

NoFind ==
    [phase |-> "idle", disk |-> [g \in FdGuids |-> "-"],
     cache |-> [g \in FdGuids |-> "-"], term |-> "a", limit |-> 0,
     documents |-> << >>, total |-> 0, adds |-> {}, deletes |-> {},
     updates |-> {}, orig_limit |-> 0, result |-> << >>]

\* a committed index, a cache page over it, and a query
FdInit ==
    \E disk \in [FdGuids -> FdTerms \cup {"-"}],
       cache \in [FdGuids -> FdTerms \cup {"-"}],
       limit \in 1..MaxLimit :
        fd = [NoFind EXCEPT !.phase = "query", !.disk = disk, !.cache = cache,
                            !.limit = limit]

FdIdle == fd = NoFind

\* page.find(query, direct_find)
FdFind ==
    /\ fd.phase = "query"
    /\ LET r == CachedPage_find(fd.disk, fd.cache, fd.term, fd.limit)
       IN  fd' = [fd EXCEPT !.phase = "iterating",
                            !.documents = r.documents, !.total = r.total,
                            !.adds = r.adds, !.deletes = r.deletes,
                            !.updates = r.updates, !.orig_limit = r.orig_limit]
    /\ UNCHANGED notFdVars

\* patched_find: the caller takes the iterator one step further, over a
\* document from the index ...
FdNextDocument ==
    /\ fd.phase = "iterating"
    /\ fd.documents # << >>
    /\ fd.orig_limit >= 1
    /\ LET guid == Head(fd.documents)
       IN  IF guid \in fd.deletes
           THEN fd' = [fd EXCEPT !.documents = Tail(@), !.total = @ - 1]
           ELSE fd' = [fd EXCEPT
                        !.documents = Tail(@),
                        !.result = Append(@, <<guid,
                            FdOverlay(fd.disk,
                                      [g \in FdGuids |-> IF g \in fd.updates
                                                         THEN fd.cache[g] ELSE "-"],
                                      guid)>>),
                        !.orig_limit = @ - 1]
    /\ UNCHANGED notFdVars

\* ... or over one of the added documents (their order follows object
\* identity, `__sort__` not being a comparison method) ...
FdNextAdd ==
    /\ fd.phase = "iterating"
    /\ fd.documents = << >>
    /\ fd.orig_limit >= 1
    /\ \E g \in fd.adds :
        fd' = [fd EXCEPT !.adds = @ \ {g},
                         !.result = Append(@, <<g, fd.cache[g]>>),
                         !.orig_limit = @ - 1]
    /\ UNCHANGED notFdVars

\* ... until it is exhausted
FdStop ==
    /\ fd.phase = "iterating"
    /\ \/ fd.orig_limit < 1
       \/ fd.documents = << >> /\ fd.adds = {}
    /\ fd' = [fd EXCEPT !.phase = "done"]
    /\ UNCHANGED notFdVars

FdNext ==
    \/ FdFind
    \/ FdNextDocument
    \/ FdNextAdd
    \/ FdStop

(* ---- claims about find ---- *)

\* the number of documents of the snapshot that match the query
FdMatching ==
    Cardinality({g \in FdGuids : FdOverlay(fd.disk, fd.cache, g) = fd.term})

\* C10: a find with an exact-term filter, limit L and offset 0 through a
\* cache page returns at most L documents, and the total it reports is the
\* number of documents of the overlaid snapshot that match, whether or not
\* the result iterator has been consumed.
C10_FindTotal ==
    fd.phase \in {"iterating", "done"} =>
        /\ Len(fd.result) <= fd.limit
        /\ fd.total = FdMatching

(***************************************************************************)
(* H. Packet generation  (resources/volume.py, toolkit/sneakernet.py)      *)
(***************************************************************************)

\* Number of documents of the directory
MaxDocs == 3

\* Largest length of one JSON record (json.dumps of a document's diff)
MaxChunk == 2

\* Largest size of a document's BLOB; 0 is a document without BLOB
MaxBlob == 2

\* Largest packet room: the packet's limit less _RESERVED_SIZE
MaxRoom == 6

\* the sequence the caller passes: everything from seqno 1 on
DfInSeq == << <<1, None>> >>

NoDiff ==
    [pc |-> "idle", room |-> 0, docs |-> << >>, in_seq |-> << >>,
     push_seq |-> << >>, tell |-> 0, next |-> 1, chunk |-> 0, limit |-> 0,
     arc |-> {}, arc_size |-> 0, records |-> {}, blobs |-> {},
     committed |-> FALSE, commit |-> << >>]

\* OutPacket._enforce_limit: does it raise DiskFull
OutPacket_enforce_limit_raises(d, size) == (d.room - d.tell) - size <= 0

\* Volume.diff, `except DiskFull`: the arcfile being written is gone, and an
\* sn_commit with push_seq is pushed with force=True if push_seq is not empty
Volume_diff_DiskFull(d) ==
    [d EXCEPT !.pc = "diskfull", !.arc = {}, !.arc_size = 0,
              !.committed = (d.push_seq # << >>), !.commit = d.push_seq]

\* Volume.diff after the records push returned: orig_seq is floored to
\* push_seq.last and pushed as sn_commit
Volume_diff_end(d) ==
    [d EXCEPT !.pc = "done",
              !.committed = (d.push_seq # << >>),
              !.commit = IF d.push_seq # << >>
                         THEN Sequence_floor(DfInSeq, Sequence_last(d.push_seq))
                         ELSE << >>]

\* patch() resumed after `yield`: the record yielded last is taken out of
\* in_seq and put into push_seq
Patch_mark(d) ==
    IF d.chunk = 0 THEN d
    ELSE [d EXCEPT !.in_seq = Sequence_exclude(@, d.chunk, d.chunk),
                   !.push_seq = Sequence_include(@, d.chunk, d.chunk)]

\* patch() up to its next `yield`: the next document of directory.diff, its
\* BLOB pushed into the packet first; raised is DiskFull out of that push;
\* chunk 0 is StopIteration
Patch_next(d) ==
    LET m == Patch_mark(d)
        k == m.next
    IN  IF k > Len(m.docs) THEN [raised |-> FALSE, d |-> [m EXCEPT !.chunk = 0]]
        ELSE IF m.docs[k].blob > 0 /\ OutPacket_enforce_limit_raises(m, m.docs[k].blob)
        THEN [raised |-> TRUE, d |-> [m EXCEPT !.chunk = 0]]
        ELSE [raised |-> FALSE,
              d |-> [m EXCEPT !.chunk = k, !.next = k + 1,
                              !.tell = @ + m.docs[k].blob,
                              !.blobs = IF m.docs[k].blob > 0 THEN @ \cup {k} ELSE @]]

\* a directory whose documents have the seqnos 1..MaxDocs, and a packet
DfInit ==
    \E docs \in [1..MaxDocs -> [len : 1..MaxChunk, blob : 0..MaxBlob]],
       room \in 1..MaxRoom :
        df = [NoDiff EXCEPT !.pc = "start", !.room = room, !.docs = docs,
                            !.in_seq = DfInSeq]

DfIdle == df = NoDiff

\* OutPacket.push(patch(), ...): the first data.next()
DfPush ==
    /\ df.pc = "start"
    /\ LET r == Patch_next(df)
       IN  df' = IF r.raised THEN Volume_diff_DiskFull(r.d)
                 ELSE IF r.d.chunk = 0 THEN Volume_diff_end(r.d)
                 ELSE [r.d EXCEPT !.pc = "loop"]
    /\ UNCHANGED notDfVars

\* top of `while chunk is not None`: limit = self._enforce_limit(), and a
\* new arcfile
DfLoop ==
    /\ df.pc = "loop"
    /\ df' = IF OutPacket_enforce_limit_raises(df, 0) THEN Volume_diff_DiskFull(df)
             ELSE [df EXCEPT !.pc = "arc", !.limit = df.room - df.tell,
                             !.arc = {}, !.arc_size = 0]
    /\ UNCHANGED notDfVars

\* one round of the inner loop: the chunk is written to the arcfile with a
\* newline if it fits, and the next one is taken from patch()
DfArc ==
    /\ df.pc = "arc"
    /\ LET len == df.docs[df.chunk].len
           wrote == [df EXCEPT !.limit = @ - len,
                               !.arc = @ \cup {df.chunk},
                               !.arc_size = @ + len + 1]
           r == Patch_next(wrote)
       IN  df' = IF df.limit - len <= 0
                 THEN (IF df.arc = {} THEN Volume_diff_DiskFull(df)
                       ELSE [df EXCEPT !.pc = "add", !.limit = @ - len])
                 ELSE IF r.raised THEN Volume_diff_DiskFull(r.d)
                 ELSE IF r.d.chunk = 0 THEN [r.d EXCEPT !.pc = "add"]
                 ELSE r.d
    /\ UNCHANGED notDfVars

\* self._add(arcname, arcfile, meta): the arcfile goes into the tarball
\* unless _enforce_limit(info.size) raises
DfAdd ==
    /\ df.pc = "add"
    /\ df' = IF OutPacket_enforce_limit_raises(df, df.arc_size)
             THEN Volume_diff_DiskFull(df)
             ELSE LET added == [df EXCEPT !.tell = @ + df.arc_size,
                                          !.records = @ \cup df.arc,
                                          !.arc = {}, !.arc_size = 0]
                  IN  IF df.chunk # 0 THEN [added EXCEPT !.pc = "loop"]
                      ELSE Volume_diff_end(added)
    /\ UNCHANGED notDfVars

DfNext ==
    \/ DfPush
    \/ DfLoop
    \/ DfArc
    \/ DfAdd

(* ---- claims about packet generation ---- *)

\* C5: when Volume.diff is interrupted by DiskFull, the sequence of the
\* sn_commit it emits contains only seqnos of documents whose record is in
\* the packet, and every seqno of in_seq whose record is not in the packet
\* is still in in_seq.
C5_DiskFullCommit ==
    df.pc = "diskfull" =>
        \A k \in 1..MaxDocs :
            /\ df.committed /\ Sequence_contains(df.commit, k) => k \in df.records
            /\ k \notin df.records => Sequence_contains(df.in_seq, k)

(***************************************************************************)
(* I. Master / satellite exchange  (node/sync_master.py, sync_node.py)     *)
(***************************************************************************)

\* Largest value a volume's seqno counter takes in the exchange
MaxSySeqno == 3

\* Largest value of the clock both sides write with
MaxSyTime == 2

\* the directory the documents of the exchange live in
SyDir == "context"

\* the seqno a document is indexed with: its stored seqno property, or the
\* property's default
DocSeqno(rec) ==
    IF rec["seqno"].exists /\ rec["seqno"].value.t = "int"
    THEN rec["seqno"].value.n ELSE PropDefault("seqno").n

\* Directory.diff(accept_range): for every document whose seqno is in the
\* range, the properties (but seqno) whose own seqno is in the range
Directory_diff(v, accept_range) ==
    LET found == {g \in Guids :
                    /\ Record_consistent(v.store[SyDir][g])
                    /\ Sequence_contains(accept_range, DocSeqno(v.store[SyDir][g]))}
    IN  [g \in found |->
            LET rec == v.store[SyDir][g]
            IN  [seqno |-> DocSeqno(rec),
                 diff |-> [p \in {q \in AllProps \ {"seqno"} :
                                    /\ rec[q].exists
                                    /\ Sequence_contains(accept_range, rec[q].seqno)}
                            |-> [value |-> rec[p].value, mtime |-> rec[p].mtime]]]]

\* the documents of a diff in the order of their seqno
RECURSIVE OrderBySeqno(_, _)
OrderBySeqno(f, S) ==
    IF S = {} THEN << >>
    ELSE LET g == CHOOSE x \in S : \A y \in S : f[x].seqno <= f[y].seqno
         IN  <<[guid |-> g, seqno |-> f[g].seqno, diff |-> f[g].diff]>>
                \o OrderBySeqno(f, S \ {g})

\* patch() over all records: each seqno leaves in_seq and enters push_seq
RECURSIVE Patch_mark_all(_, _)
Patch_mark_all(seqs, records) ==
    IF records = << >> THEN seqs
    ELSE Patch_mark_all(
            [in_seq |-> Sequence_exclude(seqs.in_seq, records[1].seqno, records[1].seqno),
             push_seq |-> Sequence_include(seqs.push_seq, records[1].seqno,
                                           records[1].seqno)],
            Tail(records))

\* Volume.diff(in_seq, packet) into a packet without limit: the sn_push
\* records, and the sn_commit with in_seq floored to the last seqno pushed
Volume_diff(v, in_seq) ==
    LET found == Directory_diff(v, in_seq)
        records == OrderBySeqno(found, {g \in DOMAIN found : DOMAIN found[g].diff # {}})
        seqs == Patch_mark_all([in_seq |-> in_seq, push_seq |-> << >>], records)
    IN  [records |-> records,
         in_seq |-> seqs.in_seq,
         committed |-> seqs.push_seq # << >>,
         commit |-> IF seqs.push_seq # << >>
                    THEN Sequence_floor(in_seq, Sequence_last(seqs.push_seq))
                    ELSE << >>]

\* SyncCommands.push on the master, the sn_push records: each is merged with
\* a new seqno, which goes into `merged`
RECURSIVE Master_merge_all(_, _, _)
Master_merge_all(acc, records, now) ==
    IF records = << >> THEN acc
    ELSE LET r == records[1]
             seqno == Directory_merge_seqno(acc.v, SyDir, r.guid, r.diff, TRUE)
         IN  Master_merge_all(
                [v |-> Directory_merge(acc.v, SyDir, r.guid, r.diff, TRUE, now),
                 merged |-> IF seqno # None
                            THEN Sequence_include(acc.merged, seqno, seqno)
                            ELSE acc.merged],
                Tail(records), now)

\* SyncCommands._import on the satellite, the sn_push records
RECURSIVE Node_merge_all(_, _, _)
Node_merge_all(v, records, now) ==
    IF records = << >> THEN v
    ELSE Node_merge_all(
            Directory_merge(v, SyDir, records[1].guid, records[1].diff, FALSE, now),
            Tail(records), now)

NoSync ==
    [m |-> [seqno |-> 0, store |-> [d \in Dirs |-> [g \in Guids |-> NoRecord]]],
     n |-> [seqno |-> 0, store |-> [d \in Dirs |-> [g \in Guids |-> NoRecord]]],
     now |-> 1, push_seq |-> << >>, pull_seq |-> << >>, cookie |-> << >>,
     round |-> "idle", acked |-> {}]

\* both volumes empty, the satellite's sequences at [[1, None]]
SyInit ==
    sy = [NoSync EXCEPT !.push_seq = << <<1, None>> >>,
                        !.pull_seq = << <<1, None>> >>,
                        !.round = "synced"]

SyIdle == sy = NoSync

SyTick ==
    /\ sy.now < MaxSyTime
    /\ sy' = [sy EXCEPT !.now = @ + 1]
    /\ UNCHANGED notSyVars

\* a document is created on the master
SyMasterCreate ==
    \E g \in Guids :
        /\ sy.m.seqno < MaxSySeqno
        /\ ~Record_exists(sy.m.store[SyDir][g])
        /\ ~Record_exists(sy.n.store[SyDir][g])
        /\ sy' = [sy EXCEPT
                    !.m = Directory_create(sy.m, SyDir, g,
                                           [p \in {"title"} |-> StrV("x")], sy.now),
                    !.round = "dirty"]
        /\ UNCHANGED notSyVars

\* the master updates a property of a document
SyMasterUpdate ==
    \E g \in Guids :
        /\ sy.m.seqno < MaxSySeqno
        /\ Record_consistent(sy.m.store[SyDir][g])
        /\ sy' = [sy EXCEPT
                    !.m = Directory_update(sy.m, SyDir, g,
                                           [p \in {"tags"} |-> StrV("x")], sy.now),
                    !.round = "dirty"]
        /\ UNCHANGED notSyVars

\* the satellite updates a property of a document
SyNodeUpdate ==
    \E g \in Guids, name \in {"tags", "title"} :
        /\ sy.n.seqno < MaxSySeqno
        /\ Record_consistent(sy.n.store[SyDir][g])
        /\ sy' = [sy EXCEPT
                    !.n = Directory_update(sy.n, SyDir, g,
                                           [p \in {name} |-> StrV("y")], sy.now),
                    !.round = "dirty"]
        /\ UNCHANGED notSyVars

\* a push round: the satellite's sync() writes sn_pull, the sn_push records
\* and sn_commit; the master's push() merges, answers sn_ack and leaves the
\* cookie; the satellite imports the sn_ack
SyPush ==
    /\ sy.m.seqno < MaxSySeqno
    /\ sy.n.seqno < MaxSySeqno
    /\ LET packet == Volume_diff(sy.n, sy.push_seq)
           res == Master_merge_all([v |-> sy.m, merged |-> << >>],
                                   packet.records, sy.now)
           pushed == IF packet.committed
                     THEN Sequence_include_all(<< >>, packet.commit) ELSE << >>
           cookie == Sequence_include_all(
                        Sequence_exclude_all(Sequence_include_all(<< >>, sy.pull_seq),
                                             res.merged),
                        sy.cookie)
       IN  sy' = [sy EXCEPT
                    !.m = res.v,
                    !.cookie = cookie,
                    !.n = IF pushed # << >>
                          THEN [sy.n EXCEPT !.seqno = Seqno_next(@)] ELSE sy.n,
                    !.push_seq = IF pushed # << >>
                                 THEN Sequence_exclude_all(@, pushed) ELSE @,
                    !.pull_seq = IF pushed # << >>
                                 THEN Sequence_exclude_all(@, res.merged) ELSE @,
                    !.acked = IF pushed # << >>
                              THEN @ \cup {packet.records[i].guid :
                                            i \in 1..Len(packet.records)}
                              ELSE @,
                    !.round = IF sy.round = "synced" THEN "synced" ELSE "pushed"]
    /\ UNCHANGED notSyVars

\* a pull round: the master's pull() answers the cookie's sn_pull with the
\* sn_push records and sn_commit, the satellite imports them
SyPull ==
    /\ sy.cookie # << >>
    /\ LET packet == Volume_diff(sy.m, sy.cookie)
       IN  sy' = [sy EXCEPT
                    !.n = Node_merge_all(sy.n, packet.records, sy.now),
                    !.cookie = << >>,
                    !.pull_seq = IF packet.committed
                                 THEN Sequence_exclude_all(@, packet.commit) ELSE @,
                    !.acked = IF packet.committed
                              THEN @ \cup {packet.records[i].guid :
                                            i \in 1..Len(packet.records)}
                              ELSE @,
                    !.round = IF sy.round = "dirty" THEN "dirty" ELSE "synced"]
    /\ UNCHANGED notSyVars

SyNext ==
    \/ SyTick
    \/ SyMasterCreate
    \/ SyMasterUpdate
    \/ SyNodeUpdate
    \/ SyPush
    \/ SyPull

(* ---- claims about the exchange ---- *)

\* C4: once a push round and then a pull round have been completed since the
\* last write on either side, with every sn_ack and sn_commit delivered, the
\* master and the satellite hold the same value for every property of every
\* acknowledged GUID.
C4_Converged ==
    sy.round = "synced" /\ sy.cookie = << >> =>
        \A g \in sy.acked : \A p \in StoredProps \ {"seqno"} :
            Document_get(sy.m, SyDir, g, p) = Document_get(sy.n, SyDir, g, p)

(***************************************************************************)
(* J. Directory.diff in chunks  (active_document/directory.py, index.py)   *)
(***************************************************************************)

\* Largest value of the directory's seqno counter
MaxDdSeqno == 3

\* Largest chunk limit passed to Directory.diff
MaxDdLimit == 2

DdGuids == {"g1", "g2", "g3"}

\* the properties of a document but seqno
DdProps == {"guid", "title", "tags"}

\* the accept_range arguments: Sequences with and without holes
DdRanges ==
    {<< <<0, None>> >>, << <<1, None>> >>, << <<2, 2>> >>,
     << <<1, 1>>, <<3, None>> >>}

\* the position of a GUID in the ascending order of GUIDs
DdRank(g) == CASE g = "g1" -> 1 [] g = "g2" -> 2 [] OTHER -> 3

NoDoc == [indexed |-> FALSE, seqno |-> 0, props |-> [p \in DdProps |-> None]]

NoRun == [phase |-> "idle", range |-> << >>, limit |-> 0, seqno |-> 0,
          chunk |-> << >>, out |-> << >>, yielded |-> FALSE, touched |-> {}]

\* Sequence.first
Sequence_first(s) == IF s # << >> THEN s[1][1] ELSE 0

\* IndexReader._enquire with order_by='seqno': ascending seqno, then
\* ascending GUID
RECURSIVE Enquire_sort(_, _)
Enquire_sort(docs, S) ==
    IF S = {} THEN << >>
    ELSE LET g == CHOOSE x \in S : \A y \in S :
                    \/ docs[x].seqno < docs[y].seqno
                    \/ docs[x].seqno = docs[y].seqno /\ DdRank(x) <= DdRank(y)
         IN  <<g>> \o Enquire_sort(docs, S \ {g})

\* Directory.find(query='seqno:N..', limit, order_by='seqno'): the documents
\* of the first page and the total number of matches
Directory_find_seqno(docs, seqno, limit) ==
    LET matches == {g \in DdGuids : docs[g].indexed /\ docs[g].seqno >= seqno}
        sorted == Enquire_sort(docs, matches)
    IN  [documents |-> SubSeq(sorted, 1, Min2(limit, Len(sorted))),
         total |-> Cardinality(matches)]

\* Directory.diff, the diff of one document: the properties, but seqno, whose
\* own seqno is in accept_range
Directory_diff_props(doc, accept_range) ==
    {p \in DdProps : doc.props[p] # None /\ Sequence_contains(accept_range, doc.props[p])}

\* Directory.diff, the end of one page: the next query starts after the
\* seqno of the last document seen
Directory_diff_next_seqno(seqno) == seqno + 1

DdInit == dd = [seqno |-> 0, docs |-> [g \in DdGuids |-> NoDoc], run |-> NoRun]

DdIdle == dd = [seqno |-> 0, docs |-> [g \in DdGuids |-> NoDoc], run |-> NoRun]

\* Directory.create: every property file and the document get a new seqno
DdCreate ==
    \E g \in DdGuids :
        /\ dd.run.phase = "idle"
        /\ dd.seqno < MaxDdSeqno
        /\ ~dd.docs[g].indexed
        /\ LET s == Seqno_next(dd.seqno)
           IN  dd' = [dd EXCEPT !.seqno = s,
                                !.docs[g] = [indexed |-> TRUE, seqno |-> s,
                                             props |-> [p \in DdProps |-> s]]]
        /\ UNCHANGED notDdVars

\* Directory.update of tags: the property file and the document get a new
\* seqno
DdUpdate ==
    \E g \in DdGuids :
        /\ dd.run.phase = "idle"
        /\ dd.seqno < MaxDdSeqno
        /\ dd.docs[g].indexed
        /\ LET s == Seqno_next(dd.seqno)
           IN  dd' = [dd EXCEPT !.seqno = s,
                                !.docs[g].seqno = s,
                                !.docs[g].props["tags"] = s]
        /\ UNCHANGED notDdVars

\* Directory.merge(guid, diff, increment_seqno=False) of a new document: the
\* property files get seqno 0 and the document is indexed with the default
\* of seqno
DdMerge ==
    \E g \in DdGuids :
        /\ dd.run.phase = "idle"
        /\ ~dd.docs[g].indexed
        /\ dd' = [dd EXCEPT !.docs[g] = [indexed |-> TRUE,
                                         seqno |-> PropDefault("seqno").n,
                                         props |-> [p \in DdProps |-> 0]]]
        /\ UNCHANGED notDdVars

\* Directory.diff(accept_range, limit) is called
DdDiff ==
    \E accept_range \in DdRanges, limit \in 1..MaxDdLimit :
        /\ dd.run.phase = "idle"
        /\ dd' = [dd EXCEPT !.run = [phase |-> "find", range |-> accept_range,
                                     limit |-> limit,
                                     seqno |-> Sequence_first(accept_range),
                                     chunk |-> << >>, out |-> << >>,
                                     yielded |-> FALSE, touched |-> {}]]
        /\ UNCHANGED notDdVars

\* one self.find(query='seqno:%s..' % seqno): no match ends the generator
DdFind ==
    /\ dd.run.phase = "find"
    /\ LET page == Directory_find_seqno(dd.docs, dd.run.seqno, dd.run.limit)
       IN  dd' = IF page.total = 0
                 THEN [dd EXCEPT !.run.phase = "done"]
                 ELSE [dd EXCEPT !.run.phase = "iter",
                                 !.run.chunk = page.documents]
    /\ UNCHANGED notDdVars

\* one pass of `for doc in documents`: the document's seqno is read from its
\* property file now (Directory.find iterates the hits lazily), and the
\* generator is suspended at the yield when the seqno is in accept_range
DdNextDoc ==
    /\ dd.run.phase = "iter"
    /\ dd.run.chunk # << >>
    /\ LET g == Head(dd.run.chunk)
           seqno == dd.docs[g].seqno
       IN  dd' = [dd EXCEPT
                    !.run.chunk = Tail(@),
                    !.run.seqno = seqno,
                    !.run.yielded = Sequence_contains(dd.run.range, seqno),
                    !.run.out = IF Sequence_contains(dd.run.range, seqno)
                                THEN Append(@, [guid |-> g, seqno |-> seqno,
                                                diff |-> Directory_diff_props(
                                                            dd.docs[g], dd.run.range)])
                                ELSE @]
    /\ UNCHANGED notDdVars

\* the page is exhausted: seqno += 1 and the loop goes on
DdPageEnd ==
    /\ dd.run.phase = "iter"
    /\ dd.run.chunk = << >>
    /\ dd' = [dd EXCEPT !.run.phase = "find",
                        !.run.yielded = FALSE,
                        !.run.seqno = Directory_diff_next_seqno(@)]
    /\ UNCHANGED notDdVars

\* another task runs Directory.update of tags while the generator is
\* suspended at its yield
DdUpdateSuspended ==
    \E g \in DdGuids :
        /\ dd.run.phase = "iter"
        /\ dd.run.yielded
        /\ dd.seqno < MaxDdSeqno
        /\ dd.docs[g].indexed
        /\ LET s == Seqno_next(dd.seqno)
           IN  dd' = [dd EXCEPT !.seqno = s,
                                !.docs[g].seqno = s,
                                !.docs[g].props["tags"] = s,
                                !.run.touched = @ \cup {g}]
        /\ UNCHANGED notDdVars

DdNext ==
    \/ DdCreate
    \/ DdUpdate
    \/ DdMerge
    \/ DdDiff
    \/ DdFind
    \/ DdNextDoc
    \/ DdPageEnd

DdConcNext ==
    \/ DdCreate
    \/ DdUpdate
    \/ DdMerge
    \/ DdDiff
    \/ DdFind
    \/ DdNextDoc
    \/ DdPageEnd
    \/ DdUpdateSuspended

(* ---- claims about Directory.diff ---- *)

\* the indexed documents whose seqno is in the accept_range of the call
DdExpected ==
    {g \in DdGuids : dd.docs[g].indexed
                        /\ Sequence_contains(dd.run.range, dd.docs[g].seqno)}

MaxRsTime == 2

\* Largest number of create and merge calls on the record
MaxRsOps == 2

\* the properties Directory._pre_store writes for a new document
RsProps == StoredProps

\* a property file: the content of which call it holds (ver), is the pickle
\* complete (whole), its modification time, and the mtime the Record.set call
\* that wrote it was given (None when it was given none)
NoFile == [exists |-> FALSE, whole |-> FALSE, ver |-> 0, mtime |-> None,
           supplied |-> None]

NoOp == [kind |-> "none", new |-> FALSE, props |-> {}, todo |-> {}, post |-> {},
         mtime |-> None, step |-> "idle", prop |-> "", raised |-> FALSE]

\* the diffs merged into the record: a whole document, or changed properties
RsDiffs == {{"guid", "title", "tags"}, {"title", "tags"}, {"tags"}}

\* _NewFile.close: the temporary file is renamed to the property's path, its
\* modification time is the time of the write
NewFile_close(files, p, ver, whole, supplied, now) ==
    [files EXCEPT ![p] = [exists |-> TRUE, whole |-> whole, ver |-> ver,
                          mtime |-> now, supplied |-> supplied]]

\* Record.set: os.utime(meta_path, (mtime, mtime))
Record_set_utime(files, p, mtime) == [files EXCEPT ![p].mtime = mtime]

RsInit == rs = [files |-> [p \in RsProps |-> NoFile], now |-> 0, ops |-> 0,
                op |-> NoOp]

RsIdle == rs = [files |-> [p \in RsProps |-> NoFile], now |-> 0, ops |-> 0,
                op |-> NoOp]

RsTick ==
    /\ rs.now < MaxRsTime
    /\ rs' = [rs EXCEPT !.now = @ + 1]
    /\ UNCHANGED notRsVars

\* Directory.create reaches _pre_store: every stored property is to be
\* written, in the order of metadata.items()
RsCreate ==
    /\ rs.op.kind = "none"
    /\ rs.ops < MaxRsOps
    /\ ~rs.files["guid"].exists
    /\ rs' = [rs EXCEPT !.ops = @ + 1,
                        !.op = [NoOp EXCEPT !.kind = "create",
                                            !.new = TRUE,
                                            !.props = RsProps,
                                            !.post = RsProps]]
    /\ UNCHANGED notRsVars

\* Directory.merge(guid, diff): the properties of newer mtime are to be
\* written in the order of diff.items(), then _pre_store writes seqno
RsMerge ==
    \E diff \in RsDiffs, mtime \in 1..MaxRsTime :
        /\ rs.op.kind = "none"
        /\ rs.ops < MaxRsOps
        /\ "guid" \in diff <=> ~rs.files["guid"].exists
        /\ LET todo == {p \in diff : ~(rs.files[p].exists
                                        /\ rs.files[p].mtime >= mtime)}
           IN  /\ todo # {}
               /\ rs' = [rs EXCEPT !.ops = @ + 1,
                            !.op = [NoOp EXCEPT !.kind = "merge",
                                                !.new = ("guid" \in diff),
                                                !.props = todo \cup {"seqno"},
                                                !.todo = todo,
                                                !.post = {"seqno"},
                                                !.mtime = mtime]]
        /\ UNCHANGED notRsVars

\* Record.set opens the temporary file and pickles the meta into it; the
\* pickling may raise
RsSetWrite ==
    \E raised \in BOOLEAN :
        /\ rs.op.kind # "none" /\ rs.op.step = "idle"
        /\ \E p \in (IF rs.op.todo # {} THEN rs.op.todo ELSE rs.op.post) :
            /\ rs.op.todo = {} => rs.files["guid"].exists \/ rs.op.kind = "create"
            /\ rs' = [rs EXCEPT !.op.step = "temp", !.op.prop = p,
                                !.op.raised = raised]
        /\ UNCHANGED notRsVars

\* the `with` block is left: _NewFile.__exit__ closes and renames; an
\* exception of the block goes on to the caller
RsSetClose ==
    /\ rs.op.step = "temp"
    /\ LET p == rs.op.prop
           supplied == IF p \in rs.op.todo THEN rs.op.mtime ELSE None
           files == NewFile_close(rs.files, p, rs.ops, ~rs.op.raised, supplied,
                                  rs.now)
       IN  rs' = [rs EXCEPT
                    !.files = files,
                    !.op = IF rs.op.raised THEN NoOp
                           ELSE IF supplied # None
                                THEN [@ EXCEPT !.step = "utime"]
                                ELSE [@ EXCEPT !.step = "idle",
                                               !.post = @ \ {p}]]
    /\ UNCHANGED notRsVars

\* Record.set with mtime: os.utime after the rename
RsSetUtime ==
    /\ rs.op.step = "utime"
    /\ rs' = [rs EXCEPT
                !.files = Record_set_utime(@, rs.op.prop, rs.op.mtime),
                !.op.step = "idle",
                !.op.todo = @ \ {rs.op.prop}]
    /\ UNCHANGED notRsVars

\* the call returns: everything was written, or merge found the record
\* without its marker and does not reach _pre_store
RsReturn ==
    /\ rs.op.kind # "none" /\ rs.op.step = "idle"
    /\ rs.op.todo = {}
    /\ rs.op.post = {} \/ (rs.op.kind = "merge" /\ ~rs.files["guid"].exists)
    /\ rs' = [rs EXCEPT !.op = NoOp]
    /\ UNCHANGED notRsVars

\* the process is killed in the middle of a call; the files stay as they are
RsCrash ==
    /\ rs.op.kind # "none"
    /\ rs' = [rs EXCEPT !.op = [@ EXCEPT !.kind = "crashed", !.step = "dead"]]
    /\ UNCHANGED notRsVars

RsNext ==
    \/ RsTick
    \/ RsCreate
    \/ RsMerge
    \/ RsSetWrite
    \/ RsSetClose
    \/ RsSetUtime
    \/ RsReturn
    \/ RsCrash

(* ---- claims about the property files ---- *)

\* C13: while a new document is created or merged, and after a crash in the
\* middle of it, the guid marker file exists only if every property file the
\* call writes exists already.
C13_MarkerLast ==
    rs.op.kind \in {"create", "merge", "crashed"} /\ rs.op.new
        /\ rs.files["guid"].exists
        => \A p \in rs.op.props : rs.files[p].exists

\* C14: a property file written by Record.set with an explicit mtime is never
\* seen with its new content and another modification time, nor partially
\* written, also when the pickling raised.
C14_SetWithMtimeAtomic ==
    \A p \in RsProps :
        rs.files[p].exists /\ rs.files[p].supplied # None
            => rs.files[p].whole /\ rs.files[p].mtime = rs.files[p].supplied

(***************************************************************************)
(* L. Index population after a crash  (directory.py, storage.py, index.py) *)
(***************************************************************************)

\* Largest value of the clock, in half seconds
MaxPpTime == 5

\* Largest number of writes to one document
MaxPpVer == 2

PpGuids == {"g1", "g2"}

\* int(st_mtime) of a time in half seconds
PpInt(t) == 2 * (t \div 2)

\* a record: the mtime of its guid marker file and of the directory above it
\* (None when absent), and the version of its stored properties
NoPpDoc == [marker |-> None, dir |-> None, ver |-> 0]

\* Storage.walk(mtime): the GUIDs whose marker is newer than mtime, in
\* directories not older than mtime
Storage_walk(docs, mtime) ==
    {g \in PpGuids :
        /\ docs[g].dir # None
        /\ ~(mtime # 0 /\ docs[g].dir < mtime)
        /\ docs[g].marker # None
        /\ docs[g].marker > mtime}

\* the index entry a reader gets: the pending write, else the committed one
Index_entry(p, g) == IF p.pending[g] # 0 THEN p.pending[g] ELSE p.committed[g]

\* the index right after the first populate() of an empty store: checkpoint()
\* has written the mtime file
PpInit ==
    pp = [now |-> 2, docs |-> [g \in PpGuids |-> NoPpDoc],
          committed |-> [g \in PpGuids |-> 0], pending |-> [g \in PpGuids |-> 0],
          mtime |-> 2, dirty |-> FALSE, phase |-> "running"]

PpIdle ==
    pp = [now |-> 0, docs |-> [g \in PpGuids |-> NoPpDoc],
          committed |-> [g \in PpGuids |-> 0], pending |-> [g \in PpGuids |-> 0],
          mtime |-> 0, dirty |-> TRUE, phase |-> "idle"]

PpTick ==
    /\ pp.phase \in {"running", "crashed"}
    /\ pp.now < MaxPpTime
    /\ pp' = [pp EXCEPT !.now = @ + 1]
    /\ UNCHANGED notPpVars

\* Directory.create: _pre_store writes every property file, the marker
\* included, Record.set('guid') touches the directory above, and the
\* document goes to the index
PpCreate ==
    \E g \in PpGuids :
        /\ pp.phase = "running"
        /\ pp.docs[g].marker = None
        /\ pp' = [pp EXCEPT !.docs[g] = [marker |-> pp.now, dir |-> pp.now,
                                         ver |-> 1],
                            !.pending[g] = 1]
        /\ UNCHANGED notPpVars

\* Directory.update: _pre_store writes the files of the given properties
\* (never guid) and the document goes to the index
PpUpdate ==
    \E g \in PpGuids :
        /\ pp.phase = "running"
        /\ pp.docs[g].marker # None
        /\ pp.docs[g].ver < MaxPpVer
        /\ pp' = [pp EXCEPT !.docs[g].ver = @ + 1,
                            !.pending[g] = pp.docs[g].ver + 1]
        /\ UNCHANGED notPpVars

\* IndexWriter._commit: the pending updates reach the disk, and the mtime
\* file is touched unless the index is dirty
PpCommit ==
    /\ pp.phase = "running"
    /\ \E g \in PpGuids : pp.pending[g] # 0
    /\ pp' = [pp EXCEPT
                !.committed = [g \in PpGuids |-> Index_entry(pp, g)],
                !.pending = [g \in PpGuids |-> 0],
                !.mtime = IF pp.dirty THEN @ ELSE PpInt(pp.now)]
    /\ UNCHANGED notPpVars

\* the process dies: the pending updates of the index are lost
PpCrash ==
    /\ pp.phase = "running"
    /\ pp' = [pp EXCEPT !.pending = [g \in PpGuids |-> 0],
                        !.dirty = TRUE,
                        !.phase = "crashed"]
    /\ UNCHANGED notPpVars

\* restart and a completed Directory.populate(): every walked record is
\* stored to the index from its property files, then checkpoint() and, if
\* something was found, commit()
PpPopulate ==
    /\ pp.phase = "crashed"
    /\ LET found == Storage_walk(pp.docs, pp.mtime)
       IN  pp' = [pp EXCEPT
                    !.committed = [g \in PpGuids |->
                                    IF g \in found THEN pp.docs[g].ver ELSE @[g]],
                    !.mtime = PpInt(pp.now),
                    !.dirty = FALSE,
                    !.phase = "populated"]
    /\ UNCHANGED notPpVars

PpNext ==
    \/ PpTick
    \/ PpCreate
    \/ PpUpdate
    \/ PpCommit
    \/ PpCrash
    \/ PpPopulate

(* ---- claims about populate ---- *)

\* C15: after a crash before the index commit, a restart and a completed
\* populate(), the index entry of every consistent record is the one of its
\* stored properties, for created records and for updated ones.
C15_PopulateRestoresIndex ==
    pp.phase = "populated" =>
        \A g \in PpGuids :
            pp.docs[g].marker # None => Index_entry(pp, g) = pp.docs[g].ver

(***************************************************************************)
(* M. The master's push command  (node/sync_master.py)                     *)
(***************************************************************************)

\* Largest value of the master's seqno counter
MaxMpSeqno == 2

\* the master's own GUID
MasterGuid == "master"

\* packet headers: src and dst absent (""), the master's GUID or another one
MpHeaders == [src : {"", MasterGuid, "node"}, dst : {"", MasterGuid, "other"}]

\* the diff of an sn_push record: the whole document g1 written at time t
MpDiff(t) ==
    [p \in {"guid", "title", "tags"} |->
        [value |-> CASE p = "guid" -> StrV("g1")
                     [] p = "title" -> MapV([NoMap EXCEPT !["en"] = "y"])
                     [] OTHER -> StrV("d"),
         mtime |-> t]]

\* the records of a packet: sn_push of g1 as the satellite stamped it with
\* seqno n at time n, sn_commit and sn_pull with their sequence
MpPushRecord(n) == [cmd |-> "sn_push", t |-> n, seqno |-> n, sequence |-> << >>]

MpCommitRecord(s) == [cmd |-> "sn_commit", t |-> 0, seqno |-> 0, sequence |-> s]

MpPullRecord == [cmd |-> "sn_pull", t |-> 0, seqno |-> 0, sequence |-> << <<1, None>> >>]

\* the packets pushed: with and without sn_commit, the sn_commit before and
\* after the sn_push, covering it or not, with an empty sequence
MpPackets ==
    {<< >>,
     <<MpPullRecord>>,
     <<MpCommitRecord(<< <<1, 1>> >>)>>,
     <<MpPushRecord(1)>>,
     <<MpPullRecord, MpPushRecord(1)>>,
     <<MpPushRecord(1), MpCommitRecord(<< >>)>>,
     <<MpPushRecord(1), MpCommitRecord(<< <<1, 1>> >>)>>,
     <<MpPushRecord(2), MpCommitRecord(<< <<1, 1>> >>)>>,
     <<MpCommitRecord(<< <<1, 1>> >>), MpPushRecord(1)>>,
     <<MpPullRecord, MpPushRecord(1), MpCommitRecord(<< <<1, 1>> >>)>>,
     <<MpPushRecord(1), MpPushRecord(2), MpCommitRecord(<< <<1, 2>> >>)>>}

\* the cookie of the request
MpCookies == {<< >>, << <<3, None>> >>}

\* SyncCommands.push, the two enforce() on the header, with the comparison
\* of src to the master's own GUID left out
Push_addressed_anySrc(header) ==
    /\ header.src # ""
    /\ header.dst # "" /\ header.dst = MasterGuid

\* SyncCommands.push, the two enforce() on the header
Push_addressed(header) ==
    /\ header.src # "" /\ header.src # MasterGuid
    /\ header.dst # "" /\ header.dst = MasterGuid

\* SyncCommands.push, `for record in in_packet.records(dst=self._guid)`
RECURSIVE Push_records(_, _)
Push_records(acc, records) ==
    IF records = << >> THEN acc
    ELSE LET r == records[1]
             seqno == Directory_merge_seqno(acc.v, SyDir, "g1", MpDiff(r.t), TRUE)
             next ==
                CASE r.cmd = "sn_push" ->
                        [acc EXCEPT
                            !.v = Directory_merge(acc.v, SyDir, "g1", MpDiff(r.t),
                                                  TRUE, 1),
                            !.merged = IF seqno # None
                                       THEN Sequence_include(@, seqno, seqno)
                                       ELSE @]
                  [] r.cmd = "sn_commit" ->
                        [acc EXCEPT !.pushed = Sequence_include_all(@, r.sequence)]
                  [] OTHER ->
                        [acc EXCEPT !.sn_pull = Sequence_include_all(@, r.sequence)]
         IN  Push_records(next, Tail(records))

\* SyncCommands.push without its enforce(not merged or pushed)
Push_enforce_commit_off(merged, pushed) == TRUE

\* SyncCommands.push, enforce(not merged or pushed, ...)
Push_enforce_commit(merged, pushed) == merged = << >> \/ pushed # << >>

NoResponse ==
    [status |-> "none", ack |-> FALSE, sequence |-> << >>, merged |-> << >>,
     cookie_set |-> FALSE, cookie |-> << >>]

NoRequest == [header |-> [src |-> "", dst |-> ""], records |-> << >>,
              cookie |-> << >>, merged |-> << >>]

MpInit ==
    mp = [v |-> [seqno |-> 0, store |-> [d \in Dirs |-> [g \in Guids |-> NoRecord]]],
          request |-> NoRequest, response |-> NoResponse]

MpIdle ==
    mp = [v |-> [seqno |-> 0, store |-> [d \in Dirs |-> [g \in Guids |-> NoRecord]]],
          request |-> NoRequest, response |-> NoResponse]

\* SyncCommands.push: a misaddressed packet raises before any record is read
MpPushMisaddressed ==
    \E header \in MpHeaders, records \in MpPackets, cookie \in MpCookies :
        /\ ~Push_addressed(header)
        /\ mp' = [mp EXCEPT
                    !.request = [header |-> header, records |-> records,
                                 cookie |-> cookie, merged |-> << >>],
                    !.response = [NoResponse EXCEPT !.status = "error"]]
        /\ UNCHANGED notMpVars

\* SyncCommands.push of an addressed packet: the records are merged, then
\* the packet is refused for a missing sn_commit, or answered with sn_ack
\* and the cookie
MpPush ==
    \E header \in MpHeaders, records \in MpPackets, cookie \in MpCookies :
        /\ Push_addressed(header)
        /\ mp.v.seqno < MaxMpSeqno
        /\ LET res == Push_records([v |-> mp.v, merged |-> << >>, pushed |-> << >>,
                                    sn_pull |-> << >>], records)
               out == Sequence_include_all(
                        Sequence_exclude_all(res.sn_pull, res.merged), cookie)
           IN  mp' = [mp EXCEPT
                        !.v = res.v,
                        !.request = [header |-> header, records |-> records,
                                     cookie |-> cookie, merged |-> res.merged],
                        !.response =
                            IF ~Push_enforce_commit(res.merged, res.pushed)
                            THEN [NoResponse EXCEPT !.status = "error"]
                            ELSE [status |-> "ok",
                                  ack |-> res.pushed # << >>,
                                  sequence |-> res.pushed,
                                  merged |-> IF res.pushed # << >>
                                             THEN res.merged ELSE << >>,
                                  cookie_set |-> out # << >>,
                                  cookie |-> out]]
        /\ UNCHANGED notMpVars

MpNext ==
    \/ MpPushMisaddressed
    \/ MpPush

(* ---- claims about push ---- *)

\* the header of the last request lacks src or dst, is from the master
\* itself, or is for somebody else
MpMisaddressed(header) ==
    \/ header.src = "" \/ header.src = MasterGuid
    \/ header.dst = "" \/ header.dst # MasterGuid

\* C16: a push whose header lacks src, has the master's GUID as src, lacks
\* dst or has a dst other than the master's GUID ends with an error and
\* leaves the volume, its seqno counter and the response cookie alone.
C16_MisaddressedRejected ==
    [][MpMisaddressed(mp'.request.header) /\ mp'.request # mp.request =>
            /\ mp'.response.status = "error"
            /\ ~mp'.response.ack
            /\ ~mp'.response.cookie_set
            /\ mp'.v = mp.v]_vars

\* a packet from the master itself with a record that would have been merged
\* and an sn_pull that would have set the cookie was refused
C16_Witness ==
    /\ mp.request.header = [src |-> MasterGuid, dst |-> MasterGuid]
    /\ \E i \in 1..Len(mp.request.records) : mp.request.records[i].cmd = "sn_push"
    /\ \E i \in 1..Len(mp.request.records) : mp.request.records[i].cmd = "sn_pull"
    /\ mp.response.status = "error"
    /\ mp.v.seqno = 0

\* the sn_push record at i is followed by an sn_commit whose sequence holds
\* the seqno the record was stamped with
MpCommitted(records, i) ==
    \E j \in (i + 1)..Len(records) :
        /\ records[j].cmd = "sn_commit"
        /\ Sequence_contains(records[j].sequence, records[i].seqno)

\* C17 as stated: sn_ack is returned only if every sn_push record is
\* followed, later in the packet, by an sn_commit whose sequence refers to
\* it, and a packet with a merged sn_push not followed so is refused.
C17_AckOnlyCommittedPushes ==
    LET records == mp.request.records
        pushes == {i \in 1..Len(records) : records[i].cmd = "sn_push"}
    IN  /\ mp.response.ack => \A i \in pushes : MpCommitted(records, i)
        /\ mp.response.status # "none" /\ mp.request.merged # << >>
                /\ (\E i \in pushes : ~MpCommitted(records, i))
            => mp.response.status = "error"

\* the packet holds an sn_commit record with a sequence that is not empty
MpHasCommit(records) ==
    \E j \in 1..Len(records) :
        records[j].cmd = "sn_commit" /\ records[j].sequence # << >>

\* C17 amended: sn_ack is returned only if the packet holds, anywhere, an
\* sn_commit record with a non-empty sequence, and a packet in which an
\* sn_push record was merged and that holds no such sn_commit is refused.
C17_AckOnlyWithCommit ==
    /\ mp.response.ack => MpHasCommit(mp.request.records)
    /\ mp.response.status # "none" /\ mp.request.merged # << >>
            /\ ~MpHasCommit(mp.request.records)
        => mp.response.status = "error"

\* a packet with a merged sn_push and no sn_commit was refused
C17_Witness ==
    /\ Push_addressed(mp.request.header)
    /\ mp.request.merged # << >>
    /\ ~MpHasCommit(mp.request.records)
    /\ mp.response.status = "error"

\* C36: a push refused for an sn_push record without sn_commit has merged
\* none of the packet's sn_push records: the master's documents, property
\* files and seqno counter are as before the request.
C36_RefusedPushMergesNothing ==
    [][(/\ ~MpMisaddressed(mp'.request.header)
        /\ mp'.response.status = "error") => mp'.v = mp.v]_vars

(***************************************************************************)
(* N. The master's pull command  (node/sync_master.py)                     *)
(***************************************************************************)

\* Largest number of _Pull objects created for the cookie
MaxPlPulls == 2

\* Largest number of pull requests sent with the cookie
MaxPlRequests == 4

\* the cookie C of the requests: sn_pull of everything
PlCookie == DfInSeq

\* _Pull.ready while the job is alive
PlRunning == {"start", "loop", "arc", "add"}

NoPullResponse == [kind |-> "none", content |-> FALSE, cookie |-> << >>,
                   delay |-> FALSE]

\* SyncCommands.pull, the pull is not ready: the cookie of the request goes
\* back with delay = pull.seconds_remained
Pull_response_wait(cookie) ==
    [kind |-> "wait", content |-> FALSE, cookie |-> cookie, delay |-> TRUE]

\* SyncCommands.pull, the pull is ready: the packet with pull.cookie, which
\* _Pull._pull cleared unless Volume.diff raised DiskFull
Pull_response_ready(d) ==
    LET cookie == IF d.pc = "diskfull" THEN d.in_seq ELSE << >>
    IN  [kind |-> "packet", content |-> TRUE, cookie |-> cookie,
         delay |-> cookie # << >>]

\* the master's volume holds documents 1..MaxDocs, one seqno each; the
\* room left on the disk is what Volume.diff sees
PlInit ==
    \E docs \in [1..MaxDocs -> [len : 1..MaxChunk, blob : 0..MaxBlob]],
       room \in 1..MaxRoom :
        pl = [docs |-> docs, room |-> room, queued |-> FALSE,
              exception |-> FALSE, pulls |-> 0, requests |-> 0,
              response |-> NoPullResponse]

PlIdle ==
    pl = [docs |-> << >>, room |-> 0, queued |-> FALSE, exception |-> FALSE,
          pulls |-> 0, requests |-> 0, response |-> NoPullResponse]

\* GET pull with cookie C and no _Pull for it in _pull_queue: a _Pull is
\* created, its job spawned, and the answer is the cookie with a delay
PlPullNew ==
    /\ ~pl.queued
    /\ pl.pulls < MaxPlPulls
    /\ pl.requests < MaxPlRequests
    /\ df' = [NoDiff EXCEPT !.pc = "start", !.room = pl.room,
                            !.docs = pl.docs, !.in_seq = PlCookie]
    /\ pl' = [pl EXCEPT !.queued = TRUE, !.exception = FALSE,
                        !.pulls = @ + 1, !.requests = @ + 1,
                        !.response = Pull_response_wait(PlCookie)]
    /\ UNCHANGED notPlDfVars

\* GET pull with cookie C while the job of its _Pull is alive
PlPullWait ==
    /\ pl.queued /\ ~pl.exception
    /\ df.pc \in PlRunning
    /\ pl.requests < MaxPlRequests
    /\ pl' = [pl EXCEPT !.requests = @ + 1,
                        !.response = Pull_response_wait(PlCookie)]
    /\ UNCHANGED notPlVars

\* GET pull with cookie C after the job ended
PlPullReady ==
    /\ pl.queued /\ ~pl.exception
    /\ df.pc \in {"done", "diskfull"}
    /\ pl.requests < MaxPlRequests
    /\ pl' = [pl EXCEPT !.requests = @ + 1,
                        !.response = Pull_response_ready(df)]
    /\ UNCHANGED notPlVars

\* _Pull._pull, `except Exception`: the generation failed
PlJobFails ==
    /\ pl.queued /\ ~pl.exception
    /\ df.pc \in PlRunning
    /\ df' = [df EXCEPT !.pc = "failed"]
    /\ pl' = [pl EXCEPT !.exception = TRUE]
    /\ UNCHANGED notPlDfVars

\* GET pull with cookie C after the generation failed: the _Pull leaves
\* _pull_queue and its exception is raised
PlPullFailed ==
    /\ pl.queued /\ pl.exception
    /\ pl.requests < MaxPlRequests
    /\ pl' = [pl EXCEPT !.queued = FALSE, !.exception = FALSE,
                        !.requests = @ + 1,
                        !.response = [NoPullResponse EXCEPT !.kind = "error"]]
    /\ UNCHANGED notPlVars

PlNext ==
    \/ PlPullNew
    \/ PlPullWait
    \/ PlPullReady
    \/ PlJobFails
    \/ PlPullFailed
    \/ DfPush
    \/ DfLoop
    \/ DfArc
    \/ DfAdd

(* ---- claims about pull ---- *)

\* C18: a response sent while the pull for cookie C is generated has no
\* content and gives C back with a delay; the response after the generation
\* ended carries the packet, with the cookie unset when it completed and
\* with exactly the part of C not served by the packet when it stopped on
\* DiskFull; a failed generation is answered with an error and leaves the
\* queue.
C18_PullResponses ==
    /\ pl.response.kind = "wait" =>
            ~pl.response.content /\ pl.response.cookie = PlCookie
                /\ pl.response.delay
    /\ pl.response.kind = "packet" =>
            /\ pl.response.content
            /\ df.pc = "done" => pl.response.cookie = << >>
            /\ df.pc = "diskfull" =>
                    \A k \in 1..MaxDocs :
                        Sequence_contains(pl.response.cookie, k) <=> k \notin df.records
    /\ pl.response.kind = "error" => ~pl.queued

(***************************************************************************)
(* O. Server-Sent Events of the volume  (resources/volume.py, Commands)    *)
(***************************************************************************)

\* Largest number of events published on the bus
MaxEvEvents == 3

EvSubscribers == {"s1", "s2"}

EvKinds == {"update", "commit"}

NoSubscriber ==
    [pc |-> "idle", only_commits |-> FALSE, since |-> 0, frames |-> << >>]

\* Commands._pull_events, the test between `event = self._notifier.get()`
\* and the yield: is the event sent to the subscriber
Pull_events_passes(only_commits, event) ==
    IF only_commits THEN event.event = "commit" ELSE event.event # "commit"

\* Commands._pull_events, one turn of the loop of a subscriber whose
\* self._notifier.get() returned `event`: a frame is yielded, or the loop
\* goes on to get() of the notifier that replaced the set one
Pull_events_loop(sub, event) ==
    IF Pull_events_passes(sub.only_commits, event)
    THEN [sub EXCEPT !.pc = "sending", !.frames = Append(@, event)]
    ELSE sub

EvInit ==
    ev = [published |-> << >>, subs |-> [s \in EvSubscribers |-> NoSubscriber]]

EvIdle ==
    ev = [published |-> << >>, subs |-> [s \in EvSubscribers |-> NoSubscriber]]

\* Commands.subscribe: the generator is created and its first frame, the
\* handshake, is handed to the server to be written to the peer
EvSubscribe ==
    \E s \in EvSubscribers, only_commits \in BOOLEAN :
        /\ ev.subs[s].pc = "idle"
        /\ ev' = [ev EXCEPT !.subs[s] = [NoSubscriber EXCEPT
                                !.pc = "handshake",
                                !.only_commits = only_commits]]
        /\ UNCHANGED notEvVars

\* the server wrote the frame and resumes the generator, which blocks in
\* self._notifier.get() on the notifier of that moment
EvFrameSent ==
    \E s \in EvSubscribers :
        /\ ev.subs[s].pc \in {"handshake", "sending"}
        /\ ev' = [ev EXCEPT !.subs[s].pc = "waiting",
                            !.subs[s].since =
                                IF ev.subs[s].pc = "handshake"
                                THEN Len(ev.published) ELSE @]
        /\ UNCHANGED notEvVars

\* Commands._notify: the notifier is set and replaced, and dispatch() lets
\* the subscribers blocked on the set notifier run
EvNotify ==
    \E kind \in EvKinds :
        /\ Len(ev.published) < MaxEvEvents
        /\ LET event == [event |-> kind, n |-> Len(ev.published) + 1]
           IN  ev' = [published |-> Append(ev.published, event),
                      subs |-> [s \in EvSubscribers |->
                                    IF ev.subs[s].pc = "waiting"
                                    THEN Pull_events_loop(ev.subs[s], event)
                                    ELSE ev.subs[s]]]
        /\ UNCHANGED notEvVars

EvNext ==
    \/ EvSubscribe
    \/ EvFrameSent
    \/ EvNotify

(* ---- claims about the events ---- *)

\* the events published after the handshake of s was received that s asked
\* for, in publication order
EvDue(s) ==
    SelectSeq(SubSeq(ev.published, ev.subs[s].since + 1, Len(ev.published)),
              LAMBDA e : Pull_events_passes(ev.subs[s].only_commits, e))

\* C19: a subscriber that received its handshake and is waiting for the
\* next event was sent every event published since the handshake that is
\* not a commit (every commit, for a commit-only subscriber), once each and
\* in publication order, also when events were published while it was
\* sending a frame.
C19_EveryEventEmitted ==
    \A s \in EvSubscribers :
        ev.subs[s].pc = "waiting" => ev.subs[s].frames = EvDue(s)

(***************************************************************************)
(* P. Deleting documents on a node  (node/commands.py)                     *)
(***************************************************************************)

NcGuids == {"g1", "g2"}

NcLayers == {"public", "deleted"}

NcTitles == {"a", "b"}

NcProps == {"title", "layer"}

\* the layer argument of a find request: not given, or a list of layers
NcFilters ==
    {[given |-> FALSE, layer |-> {}]} \cup [given : {TRUE}, layer : SUBSET NcLayers]

NoNcDoc == [exists |-> FALSE, layer |-> {}, title |-> "-"]

NoNcResponse ==
    [op |-> "none", guid |-> "-", result |-> "none", served |-> {}]

\* NodeCommands._NodeCommands_find_pre: the layer the find is run with
Find_pre_layer(filter) ==
    LET layer == IF filter.given THEN filter.layer ELSE {"public"}
    IN  layer \ {"deleted"}

\* IndexReader._enquire for a request with `layer`: the needles are OR-ed,
\* and a property without needles adds no query at all
Enquire_layer(docs, layer) ==
    {g \in NcGuids :
        /\ docs[g].exists
        /\ layer = {} \/ docs[g].layer \cap layer # {}}

\* NodeCommands._NodeCommands_get_post, the post wrapper of the document's
\* GET: does the enforce pass
Get_post_passes(doc) == "deleted" \notin doc.layer

NcInit ==
    nc = [docs |-> [g \in NcGuids |-> NoNcDoc], deleted |-> {},
          response |-> NoNcResponse]

NcIdle ==
    nc = [docs |-> [g \in NcGuids |-> NoNcDoc], deleted |-> {},
          response |-> NoNcResponse]

\* POST of a document: layer takes its default, ['public']
NcCreate ==
    \E g \in NcGuids, title \in NcTitles :
        /\ ~nc.docs[g].exists
        /\ nc' = [nc EXCEPT
                    !.docs[g] = [exists |-> TRUE, layer |-> {"public"},
                                 title |-> title],
                    !.response = [NoNcResponse EXCEPT !.op = "create",
                                    !.guid = g, !.result = "ok"]]
        /\ UNCHANGED notNcVars

\* PUT of a document
NcUpdate ==
    \E g \in NcGuids, title \in NcTitles :
        /\ nc.docs[g].exists
        /\ nc' = [nc EXCEPT
                    !.docs[g].title = title,
                    !.response = [NoNcResponse EXCEPT !.op = "update",
                                    !.guid = g, !.result = "ok"]]
        /\ UNCHANGED notNcVars

\* NodeCommands.delete: directory.update(guid, {'layer': ['deleted']})
NcDelete ==
    \E g \in NcGuids :
        /\ nc.docs[g].exists
        /\ nc' = [nc EXCEPT
                    !.docs[g].layer = {"deleted"},
                    !.deleted = @ \cup {g},
                    !.response = [NoNcResponse EXCEPT !.op = "delete",
                                    !.guid = g, !.result = "ok"]]
        /\ UNCHANGED notNcVars

\* VolumeCommands.get followed by _NodeCommands_get_post
NcGet ==
    \E g \in NcGuids :
        /\ nc' = [nc EXCEPT
                    !.response = [NoNcResponse EXCEPT !.op = "get",
                        !.guid = g,
                        !.result = IF nc.docs[g].exists
                                        /\ Get_post_passes(nc.docs[g])
                                   THEN "ok" ELSE "NotFound"]]
        /\ UNCHANGED notNcVars

\* VolumeCommands.get_prop: a command of the property scope, which has no
\* post wrapper
NcGetProp ==
    \E g \in NcGuids, prop \in NcProps :
        /\ nc' = [nc EXCEPT
                    !.response = [NoNcResponse EXCEPT !.op = "get_prop",
                        !.guid = g,
                        !.result = IF nc.docs[g].exists
                                   THEN "ok" ELSE "NotFound"]]
        /\ UNCHANGED notNcVars

\* _NodeCommands_find_pre followed by VolumeCommands.find
NcFind ==
    \E filter \in NcFilters :
        /\ nc' = [nc EXCEPT
                    !.response = [NoNcResponse EXCEPT !.op = "find",
                        !.result = "ok",
                        !.served = Enquire_layer(nc.docs,
                                        Find_pre_layer(filter))]]
        /\ UNCHANGED notNcVars

NcNext ==
    \/ NcCreate
    \/ NcUpdate
    \/ NcDelete
    \/ NcGet
    \/ NcGetProp
    \/ NcFind

(* ---- claims about deleted documents ---- *)

\* C20: a document deleted through the node commands keeps its record, with
\* 'deleted' in layer, and is not served any more: a GET of it or of one of
\* its properties answers NotFound, and no find returns it, whatever layer
\* the caller asks for.
C20_DeletedNeverServed ==
    /\ \A g \in nc.deleted :
            nc.docs[g].exists /\ "deleted" \in nc.docs[g].layer
    /\ nc.response.op \in {"get", "get_prop"} /\ nc.response.guid \in nc.deleted
            => nc.response.result = "NotFound"
    /\ nc.response.op = "find" => nc.response.served \cap nc.deleted = {}

(***************************************************************************)
(* Q. The command dispatcher  (active_document/commands.py)                *)
(***************************************************************************)

ACCESS_SYSTEM == 64

ACCESS_LOCAL == 128

ACCESS_REMOTE == 256

ACCESS_LEVELS == ACCESS_SYSTEM + ACCESS_LOCAL + ACCESS_REMOTE

\* the & of two access levels
RECURSIVE BitAnd(_, _)
BitAnd(a, b) ==
    IF a = 0 \/ b = 0 THEN 0
    ELSE (a % 2) * (b % 2) + 2 * BitAnd(a \div 2, b \div 2)

CpScopes == {"volume", "directory", "document", "property"}

\* no entry under a key of _Commands
NoCommand ==
    [registered |-> FALSE, access_level |-> 0, arguments |-> FALSE,
     pre |-> 0, post |-> 0]

\* the commands that get registered: access level, whether `arguments` has
\* a cast for the argument of the requests, and the numbers of pre and post
\* wrappers
CpCommands ==
    {[registered |-> TRUE, access_level |-> ACCESS_LEVELS,
      arguments |-> FALSE, pre |-> 0, post |-> 0],
     [registered |-> TRUE, access_level |-> ACCESS_LEVELS,
      arguments |-> TRUE, pre |-> 1, post |-> 2],
     [registered |-> TRUE, access_level |-> ACCESS_LOCAL,
      arguments |-> TRUE, pre |-> 1, post |-> 1],
     [registered |-> TRUE, access_level |-> ACCESS_SYSTEM + ACCESS_LOCAL,
      arguments |-> FALSE, pre |-> 0, post |-> 2],
     [registered |-> TRUE, access_level |-> ACCESS_REMOTE,
      arguments |-> FALSE, pre |-> 1, post |-> 0]}

\* requests for method GET without cmd: document ("" when absent), whether
\* guid and prop are given, the access level, and whether the argument that
\* `arguments` casts is given
CpRequests ==
    [document : {"", "D", "E"}, guid : BOOLEAN, prop : BOOLEAN,
     access_level : {ACCESS_SYSTEM, ACCESS_LOCAL, ACCESS_REMOTE},
     arg : BOOLEAN]

\* _Commands.get(key) for the key (GET, None, document) in one scope; the
\* registry holds the commands of the keys (GET, None, None) and
\* (GET, None, 'D') of one scope
Commands_get(registry, scope, document) ==
    IF scope # registry.scope THEN NoCommand
    ELSE IF document = "" THEN registry.generic
    ELSE IF document = "D" THEN registry.specific
    ELSE NoCommand

\* `commands.get(key) or commands.get(document_key)`
Commands_get_or(registry, scope, document) ==
    IF Commands_get(registry, scope, "").registered
    THEN [which |-> "generic", cmd |-> Commands_get(registry, scope, "")]
    ELSE IF Commands_get(registry, scope, document).registered
    THEN [which |-> "specific", cmd |-> Commands_get(registry, scope, document)]
    ELSE [which |-> "none", cmd |-> NoCommand]

\* the scope CommandsProcessor.resolve looks the command up in
Resolve_scope(request) ==
    IF request.document = "" THEN "volume"
    ELSE IF ~request.guid THEN "directory"
    ELSE IF ~request.prop THEN "document"
    ELSE "property"

\* CommandsProcessor.resolve
CommandsProcessor_resolve(registry, request) ==
    IF request.document = ""
    THEN IF Commands_get(registry, "volume", "").registered
         THEN [which |-> "generic", cmd |-> Commands_get(registry, "volume", "")]
         ELSE [which |-> "none", cmd |-> NoCommand]
    ELSE Commands_get_or(registry, Resolve_scope(request), request.document)

Call_authorized_always(request, cmd) == TRUE

\* CommandsProcessor.call: enforce(request.access_level & cmd.access_level)
Call_authorized(request, cmd) ==
    BitAnd(request.access_level, cmd.access_level) # 0

\* the steps of a call, in the order CommandsProcessor.call takes them
Call_steps(request, cmd) ==
    (IF cmd.arguments /\ request.arg THEN <<"coerce">> ELSE << >>)
        \o [i \in 1..cmd.pre |-> "pre"]
        \o <<"handler">>
        \o [i \in 1..cmd.post |-> "post"]

\* the value of `result` after the loop over cmd.post: the handler returns 0
\* and the i-th post wrapper returns i
RECURSIVE Call_posts(_, _, _)
Call_posts(result, i, post) ==
    IF i > post THEN result ELSE Call_posts(i, i + 1, post)

NoCall ==
    [request |-> [document |-> "", guid |-> FALSE, prop |-> FALSE,
                  access_level |-> 0, arg |-> FALSE],
     which |-> "none", cmd |-> NoCommand, error |-> "none",
     steps |-> << >>, result |-> 0]

\* CommandsProcessor.call
CommandsProcessor_call(registry, request) ==
    LET r == CommandsProcessor_resolve(registry, request)
    IN  IF ~r.cmd.registered
        THEN [NoCall EXCEPT !.request = request, !.error = "CommandNotFound"]
        ELSE IF ~Call_authorized(request, r.cmd)
        THEN [NoCall EXCEPT !.request = request, !.which = r.which,
                            !.cmd = r.cmd, !.error = "Forbidden"]
        ELSE [request |-> request, which |-> r.which, cmd |-> r.cmd,
              error |-> "", steps |-> Call_steps(request, r.cmd),
              result |-> Call_posts(0, 1, r.cmd.post)]

CpInit ==
    \E scope \in CpScopes :
        cp = [registry |-> [scope |-> scope, generic |-> NoCommand,
                            specific |-> NoCommand],
              last |-> NoCall]

CpIdle ==
    cp = [registry |-> [scope |-> "", generic |-> NoCommand,
                        specific |-> NoCommand],
          last |-> NoCall]

\* _Commands.add of a command without document class
CpAddGeneric ==
    \E cmd \in CpCommands :
        /\ ~cp.registry.generic.registered
        /\ cp' = [cp EXCEPT !.registry.generic = cmd, !.last = NoCall]
        /\ UNCHANGED notCpVars

\* _Commands.add of a command of document class D
CpAddSpecific ==
    \E cmd \in CpCommands :
        /\ ~cp.registry.specific.registered
        /\ cp' = [cp EXCEPT !.registry.specific = cmd, !.last = NoCall]
        /\ UNCHANGED notCpVars

CpCall ==
    \E request \in CpRequests :
        /\ cp' = [cp EXCEPT !.last = CommandsProcessor_call(cp.registry, request)]
        /\ UNCHANGED notCpVars

CpNext ==
    \/ CpAddGeneric
    \/ CpAddSpecific
    \/ CpCall

(* ---- claims about the dispatcher ---- *)

\* C21: a request for class D in directory, document or property scope is
\* resolved to the command registered for class D when there is one in that
\* scope, and to the generic command only when there is none.
C21_ClassSpecificFirst ==
    /\ cp.last.request.document = "D"
    /\ Resolve_scope(cp.last.request) = cp.registry.scope
    /\ cp.last.error # "none"
    => cp.last.which =
            IF cp.registry.specific.registered THEN "specific"
            ELSE IF cp.registry.generic.registered THEN "generic"
            ELSE "none"

\* C22: a call whose request shares no access bit with the resolved command
\* raises Forbidden without coercing an argument or invoking a wrapper or the
\* handler; any other call of a resolved command coerces, runs the pre
\* wrappers, the handler and the post wrappers in this order and returns the
\* value of the last post wrapper, or the handler's when there is none.
C22_CallOrder ==
    cp.last.cmd.registered =>
        IF \A bit \in {ACCESS_SYSTEM, ACCESS_LOCAL, ACCESS_REMOTE} :
                ~(BitAnd(cp.last.request.access_level, bit) # 0
                    /\ BitAnd(cp.last.cmd.access_level, bit) # 0)
        THEN cp.last.error = "Forbidden" /\ cp.last.steps = << >>
        ELSE /\ cp.last.error = ""
             /\ Len(cp.last.steps) =
                    (IF cp.last.cmd.arguments /\ cp.last.request.arg THEN 1 ELSE 0)
                        + cp.last.cmd.pre + 1 + cp.last.cmd.post
             /\ \A i, j \in DOMAIN cp.last.steps :
                    i < j =>
                        /\ cp.last.steps[j] # "coerce"
                        /\ cp.last.steps[i] = "handler" => cp.last.steps[j] = "post"
                        /\ cp.last.steps[j] = "handler" => cp.last.steps[i] # "post"
                        /\ cp.last.steps[j] = "pre" => cp.last.steps[i] \in {"coerce", "pre"}
             /\ \E i \in DOMAIN cp.last.steps : cp.last.steps[i] = "handler"
             /\ cp.last.result = cp.last.cmd.post

C22_Witness ==
    /\ cp.last.error = "Forbidden"
    /\ cp.last.which = "specific"
    /\ cp.last.cmd.arguments /\ cp.last.request.arg
    /\ cp.last.cmd.pre > 0 /\ cp.last.cmd.post > 0

(***************************************************************************)
(* R. The HTTP router  (sugar_network/toolkit/router.py)                   *)
(***************************************************************************)

RtUsers == {"u1", "u2"}

\* what the dispatched command does: it returns, or raises an exception of
\* one of these classes
RtOutcomes ==
    {"ok", "CommandNotFound", "ad.BadRequest", "ad.Forbidden", "ad.NotFound",
     "router.BadRequest", "NotModified", "RuntimeError"}

\* HTTP requests: the sugar_user header ("" when absent), the method, the
\* first segment of the path, the Origin header ("" when absent, else an
\* origin that _assert_origin accepts or refuses), and the command's outcome
RtRequests ==
    [user : {""} \cup RtUsers, method : {"GET", "POST", "OPTIONS"},
     path : {"user", "context"}, origin : {"", "valid", "invalid"},
     outcome : RtOutcomes]

\* the classes an exception is an instance of
Error_classes(error) ==
    CASE error = "router.BadRequest" -> {"router.BadRequest", "HTTPStatus"}
      [] error = "Unauthorized" -> {"Unauthorized", "HTTPStatus"}
      [] error = "NotModified" -> {"NotModified", "HTTPStatusPass", "HTTPStatus"}
      [] OTHER -> {error}

\* the `status` attribute of the HTTPStatus classes
HTTPStatus_status(error) ==
    CASE error = "router.BadRequest" -> 400
      [] error = "Unauthorized" -> 401
      [] error = "NotModified" -> 304
      [] OTHER -> 0

\* Router.__call__: the status of the response, from the except clauses
Router_status(error) ==
    IF error = "" THEN 200
    ELSE IF "HTTPStatusPass" \in Error_classes(error) THEN HTTPStatus_status(error)
    ELSE IF "ad.NotFound" \in Error_classes(error) THEN 404
    ELSE IF "ad.Forbidden" \in Error_classes(error) THEN 403
    ELSE IF "HTTPStatus" \in Error_classes(error) THEN HTTPStatus_status(error)
    ELSE 500

Authenticate_checks_userPath(authenticated, request) ==
    /\ request.user # ""
    /\ request.user \notin authenticated
    /\ request.path # "user" /\ request.method # "POST"

\* Router.authenticate: is the existence of the user looked up
Authenticate_checks(authenticated, request) ==
    /\ request.user # ""
    /\ request.user \notin authenticated
    /\ request.path # "user" \/ request.method # "POST"

NoRouted ==
    [request |-> [user |-> "", method |-> "", path |-> "", origin |-> "",
                  outcome |-> "ok"],
     known |-> FALSE, passed |-> FALSE, checked |-> FALSE,
     dispatched |-> FALSE, error |-> "", status |-> 0]

\* Router.call up to the dispatch of the command: the origin is asserted,
\* an OPTIONS request is answered, the user is authenticated
Router_call(r, request) ==
    LET checks == Authenticate_checks(r.authenticated, request)
        base == [NoRouted EXCEPT !.request = request,
                                 !.known = request.user \in r.users,
                                 !.passed = request.user \in r.authenticated]
    IN  IF request.origin = "invalid"
        THEN [base EXCEPT !.error = "ad.Forbidden"]
        ELSE IF request.method = "OPTIONS"
        THEN [base EXCEPT !.error = IF request.origin = "" THEN "KeyError" ELSE ""]
        ELSE IF checks /\ request.user \notin r.users
        THEN [base EXCEPT !.checked = TRUE, !.error = "Unauthorized"]
        ELSE [base EXCEPT !.checked = checks, !.dispatched = TRUE,
                          !.error = IF request.outcome = "ok" THEN ""
                                    ELSE request.outcome]

RtInit ==
    rt = [users |-> {}, authenticated |-> {}, last |-> NoRouted]

RtIdle ==
    rt = [users |-> {}, authenticated |-> {}, last |-> NoRouted]

\* Router.__call__ for one request
RtRequest ==
    \E request \in RtRequests :
        LET c == Router_call(rt, request)
        IN  /\ rt' = [users |->
                        IF c.dispatched /\ c.error = "" /\ request.user # ""
                                /\ request.method = "POST" /\ request.path = "user"
                        THEN rt.users \cup {request.user} ELSE rt.users,
                      authenticated |->
                        IF c.checked /\ c.error # "Unauthorized"
                        THEN rt.authenticated \cup {request.user}
                        ELSE rt.authenticated,
                      last |-> [c EXCEPT !.status = Router_status(c.error)]]
            /\ UNCHANGED notRtVars

RtNext ==
    \/ RtRequest

(* ---- claims about the router ---- *)

\* C23: a request that matches no command (CommandNotFound) is answered with
\* 404, BadRequest with 400, Forbidden with 403, NotFound with 404, and 500
\* is the answer to errors of no known kind only.
C23_ErrorStatus ==
    /\ rt.last.error = "CommandNotFound" => rt.last.status = 404
    /\ rt.last.error \in {"ad.BadRequest", "router.BadRequest"} => rt.last.status = 400
    /\ rt.last.error = "ad.Forbidden" => rt.last.status = 403
    /\ rt.last.error = "ad.NotFound" => rt.last.status = 404
    /\ rt.last.status = 500 =>
            rt.last.error \notin {"CommandNotFound", "ad.BadRequest",
                                  "router.BadRequest", "ad.Forbidden", "ad.NotFound"}

\* the request of the last response carries a user id that did not pass the
\* existence check before and is not in the user directory
RtUnknownUser ==
    /\ rt.last.request.user # ""
    /\ ~rt.last.passed
    /\ ~rt.last.known

RtCreatesUser ==
    rt.last.request.method = "POST" /\ rt.last.request.path = "user"

\* C24, as stated: every request of an unknown user that is not POST /user
\* is rejected with 401 and not dispatched.
C24_UnknownUserRejected ==
    RtUnknownUser /\ ~RtCreatesUser =>
        rt.last.status = 401 /\ ~rt.last.dispatched

\* C24: a request of an unknown user that is not POST /user is never
\* dispatched, and it is rejected with 401 unless it is answered before the
\* authentication (an OPTIONS request, or a request of a refused origin); a
\* user id is dispatched without a check only after a check of it succeeded;
\* the user-creation request does not mark its user as authenticated.
C24_UnknownUserNotDispatched ==
    [][/\ rt'.last.request.user # "" /\ rt'.last.request.user \notin rt.authenticated
            /\ rt'.last.request.user \notin rt.users
            /\ ~(rt'.last.request.method = "POST" /\ rt'.last.request.path = "user")
          => /\ ~rt'.last.dispatched
             /\ rt'.last.request.method # "OPTIONS" /\ rt'.last.request.origin # "invalid"
                    => rt'.last.status = 401
       /\ \A u \in rt'.authenticated \ rt.authenticated :
            /\ u \in rt.users
            /\ rt'.last.request.user = u /\ rt'.last.checked
            /\ ~(rt'.last.request.method = "POST" /\ rt'.last.request.path = "user")
       /\ rt'.last.dispatched /\ rt'.last.request.user # "" /\ ~rt'.last.checked
            => \/ rt'.last.request.user \in rt.authenticated
               \/ rt'.last.request.method = "POST" /\ rt'.last.request.path = "user"
      ]_vars

C24_Witness ==
    /\ RtUnknownUser /\ ~RtCreatesUser
    /\ rt.last.request.method = "GET" /\ rt.last.request.origin = ""
    /\ rt.last.status = 401
    /\ rt.users # {}
    /\ rt.authenticated # {}

(***************************************************************************)
(* S. The packet codec  (sugar_network/toolkit/sneakernet.py)              *)
(***************************************************************************)

\* Largest number of push calls on one packet
MaxPkPushes == 3

\* Largest room of a limited packet: its limit less _RESERVED_SIZE
MaxPkRoom == 4

\* the free space seen by a packet without limit (os.statvfs)
PkDiskFree == 50

\* the header of the packet: the keyword arguments of OutPacket
PkHeader == [src |-> "node", filename |-> "node.packet"]

\* '%08d' % self._file_num
PkAutoName(file_num) == <<"#", file_num>>

\* the push calls: `kind` tells what `data` is (None, a file, an iterable of
\* dicts), arcname is << >> when not given; rows and metadata are
\* dictionaries, each of JSON length 1, a BLOB is a sequence of bytes
PkPushes ==
    {[kind |-> "record", arcname |-> << >>, meta |-> [cmd |-> "sn_ack"],
      blob |-> << >>, rows |-> << >>],
     [kind |-> "record", arcname |-> << >>,
      meta |-> [cmd |-> "sn_pull", src |-> "other"],
      blob |-> << >>, rows |-> << >>],
     [kind |-> "blob", arcname |-> << >>, meta |-> [cmd |-> "sn_push"],
      blob |-> <<1>>, rows |-> << >>],
     [kind |-> "blob", arcname |-> <<"files/a">>, meta |-> [cmd |-> "files_push"],
      blob |-> <<1, 2>>, rows |-> << >>],
     [kind |-> "blob", arcname |-> <<"files/a">>, meta |-> [cmd |-> "files_push"],
      blob |-> <<3>>, rows |-> << >>],
     [kind |-> "records", arcname |-> << >>, meta |-> [cmd |-> "stats_push"],
      blob |-> << >>, rows |-> <<[guid |-> "g1"], [guid |-> "g2"]>>],
     [kind |-> "records", arcname |-> <<"context/diff">>,
      meta |-> [cmd |-> "sn_push"],
      blob |-> << >>, rows |-> <<[guid |-> "g3"]>>],
     [kind |-> "records", arcname |-> << >>, meta |-> [cmd |-> "sn_push"],
      blob |-> << >>, rows |-> << >>]}

\* dict.update: the items of `other` are put into d
Dict_update(d, other) ==
    [k \in DOMAIN d \cup DOMAIN other |->
        IF k \in DOMAIN other THEN other[k] ELSE d[k]]

NoPacket ==
    [state |-> "none", room |-> 0, tell |-> 0, file_num |-> 0,
     empty |-> TRUE, tar |-> << >>, pushes |-> << >>, plain |-> 0,
     out |-> << >>, read |-> FALSE]

\* OutPacket._enforce_limit: the space left
OutPacket_free(p) ==
    IF p.room = 0 THEN PkDiskFree - p.tell ELSE p.room - p.tell

OutPacket_limit_raises_never(p, size) == FALSE

\* OutPacket._enforce_limit: does it raise DiskFull
OutPacket_limit_raises(p, size) == OutPacket_free(p) - size <= 0

\* OutPacket._addfile: raised is DiskFull; a member that was not forced is
\* counted in `plain`
OutPacket_addfile(p, name, record, content, size, force) ==
    IF ~force /\ OutPacket_limit_raises(p, size)
    THEN [raised |-> TRUE, p |-> p]
    ELSE [raised |-> FALSE,
          p |-> [p EXCEPT !.tar = Append(@, [name |-> name, record |-> record,
                                             content |-> content]),
                          !.tell = @ + size,
                          !.plain = IF force THEN @ ELSE @ + size,
                          !.empty = FALSE]]

\* OutPacket._add: the data member, if any, and the forced .record member
OutPacket_add(p, arcname, hasdata, content, size, meta) ==
    LET q == IF arcname = << >> THEN [p EXCEPT !.file_num = @ + 1] ELSE p
        name == IF arcname = << >> THEN PkAutoName(q.file_num) ELSE arcname
        a == IF hasdata THEN OutPacket_addfile(q, name, FALSE, content, size, FALSE)
             ELSE [raised |-> FALSE, p |-> q]
    IN  IF a.raised THEN a
        ELSE OutPacket_addfile(a.p, name, TRUE, meta, 1, TRUE)

\* OutPacket.push of an iterable, the inner `while True`: the rows from i on
\* that go into the arcfile under `limit`; j is the first row left out
RECURSIVE Push_fill(_, _, _)
Push_fill(rows, i, limit) ==
    IF limit - 1 <= 0 THEN i
    ELSE IF i + 1 > Len(rows) THEN i + 1
    ELSE Push_fill(rows, i + 1, limit - 1)

\* OutPacket.push of an iterable, `while chunk is not None` with the chunk
\* rows[i]
RECURSIVE Push_rows(_, _, _, _, _)
Push_rows(p, rows, i, arcname, meta) ==
    IF OutPacket_limit_raises(p, 0) THEN [raised |-> TRUE, p |-> p]
    ELSE LET j == Push_fill(rows, i, OutPacket_free(p))
         IN  IF j = i THEN [raised |-> TRUE, p |-> p]
             ELSE LET a == OutPacket_add(p, arcname, TRUE, SubSeq(rows, i, j - 1),
                                         2 * (j - i), meta)
                  IN  IF a.raised \/ j > Len(rows) THEN a
                      ELSE Push_rows(a.p, rows, j, arcname, meta)

\* OutPacket.push
OutPacket_push(p, push) ==
    CASE push.kind = "record" ->
            OutPacket_add(p, push.arcname, FALSE, << >>, 0, push.meta)
      [] push.kind = "blob" ->
            OutPacket_add(p, push.arcname, TRUE, push.blob, Len(push.blob),
                          Dict_update(push.meta, [content_type |-> "blob"]))
      [] push.kind = "records" ->
            IF push.rows = << >> THEN [raised |-> FALSE, p |-> p]
            ELSE Push_rows(p, push.rows, 1, push.arcname,
                           Dict_update(push.meta, [content_type |-> "records"]))

\* OutPacket.close, also from __exit__ with DiskFull: an empty packet is
\* cleared, else the header is added with force
OutPacket_close(p) ==
    IF p.empty THEN [p EXCEPT !.state = "cleared", !.tar = << >>]
    ELSE [OutPacket_addfile(p, <<"header">>, FALSE, PkHeader, 1, TRUE).p
            EXCEPT !.state = "closed"]

\* TarFile.extractfile(name): the last member of that name
Tar_extract(tar, name) ==
    LET found == {i \in 1..Len(tar) : tar[i].name = name /\ ~tar[i].record}
    IN  tar[CHOOSE i \in found : \A k \in found : k <= i].content

\* InPacket.records: what the i-th member of the tarball yields
InPacket_member_records(tar, i, header) ==
    IF ~tar[i].record THEN << >>
    ELSE LET meta == Dict_update(tar[i].content, header)
         IN  IF "content_type" \in DOMAIN meta /\ meta.content_type = "records"
             THEN LET rows == Tar_extract(tar, tar[i].name)
                  IN  [k \in 1..Len(rows) |-> Dict_update(rows[k], meta)]
             ELSE IF "content_type" \in DOMAIN meta /\ meta.content_type = "blob"
             THEN <<Dict_update(meta, [blob |-> Tar_extract(tar, tar[i].name)])>>
             ELSE <<meta>>

\* InPacket.records
RECURSIVE InPacket_records(_, _, _)
InPacket_records(tar, i, header) ==
    IF i > Len(tar) THEN << >>
    ELSE InPacket_member_records(tar, i, header)
            \o InPacket_records(tar, i + 1, header)

\* an open packet, without limit (room 0) or with one
PkInit ==
    \E room \in 0..MaxPkRoom :
        pk = [NoPacket EXCEPT !.state = "open", !.room = room]

PkIdle == pk = NoPacket

\* one OutPacket.push; `ok` tells whether it returned normally
PkPush ==
    \E push \in PkPushes :
        /\ pk.state = "open"
        /\ Len(pk.pushes) < MaxPkPushes
        /\ LET r == OutPacket_push(pk, push)
           IN  pk' = [r.p EXCEPT !.pushes =
                        Append(@, [push |-> push, ok |-> ~r.raised,
                                   tar |-> Len(r.p.tar)])]
        /\ UNCHANGED notPkVars

\* OutPacket.close or the end of `with OutPacket(...)`
PkClose ==
    /\ pk.state = "open"
    /\ pk' = OutPacket_close(pk)
    /\ UNCHANGED notPkVars

\* InPacket(...).records() on the closed packet
PkRecords ==
    /\ pk.state = "closed"
    /\ ~pk.read
    /\ pk' = [pk EXCEPT !.read = TRUE,
                        !.out = InPacket_records(pk.tar, 1,
                                    Tar_extract(pk.tar, <<"header">>))]
    /\ UNCHANGED notPkVars

PkNext ==
    \/ PkPush
    \/ PkClose
    \/ PkRecords

(* ---- claims about packets ---- *)

\* the records one push writes, as the caller gave them
PkWritten(push) ==
    CASE push.kind = "record" -> <<push.meta>>
      [] push.kind = "blob" -> <<Dict_update(push.meta, [blob |-> push.blob])>>
      [] push.kind = "records" ->
            [k \in 1..Len(push.rows) |-> Dict_update(push.meta, push.rows[k])]

RECURSIVE PkWrittenAll(_, _)
PkWrittenAll(pushes, i) ==
    IF i > Len(pushes) THEN << >>
    ELSE PkWritten(pushes[i].push) \o PkWrittenAll(pushes, i + 1)

\* C25: after pushes that all returned and close(), records() yields one
\* record for each record written, in the order written, each holding the
\* fields written with the values written, BLOB bytes included.
C25_RoundTrip ==
    pk.read /\ (\A i \in DOMAIN pk.pushes : pk.pushes[i].ok) =>
        LET written == PkWrittenAll(pk.pushes, 1)
        IN  /\ Len(pk.out) = Len(written)
            /\ \A i \in DOMAIN written :
                    \A k \in DOMAIN written[i] :
                        k \in DOMAIN pk.out[i] /\ pk.out[i][k] = written[i][k]

\* the members the i-th push added to the tarball
PkMembers(i) ==
    SubSeq(pk.tar, IF i = 1 THEN 1 ELSE pk.pushes[i - 1].tar + 1, pk.pushes[i].tar)

\* the members of a push are all the caller's records: the metadata, and
\* the BLOB or all the rows
PkComplete(i) ==
    LET push == pk.pushes[i].push
        members == PkMembers(i)
    IN  CASE push.kind = "record" ->
                \E m \in DOMAIN members :
                    members[m].record /\ members[m].content = push.meta
          [] push.kind = "blob" ->
                /\ \E m \in DOMAIN members :
                        ~members[m].record /\ members[m].content = push.blob
                /\ \E m \in DOMAIN members : members[m].record
          [] push.kind = "records" ->
                \A k \in DOMAIN push.rows :
                    \E m \in DOMAIN members :
                        /\ ~members[m].record
                        /\ \E x \in DOMAIN members[m].content :
                                members[m].content[x] = push.rows[k]

PkLeft == pk.state \in {"closed", "cleared"}

PkBytesWithinLimit == pk.room # 0 => pk.plain <= pk.room

\* C26, as stated: leaving the packet after some pushes always produces a
\* readable packet with the header and the records of every push that
\* returned, the bytes added without force within the limit.
C26_AlwaysReadable ==
    PkLeft /\ pk.pushes # << >> =>
        /\ pk.state = "closed"
        /\ \E m \in DOMAIN pk.tar : pk.tar[m].name = <<"header">>
        /\ \A i \in DOMAIN pk.pushes : pk.pushes[i].ok => PkComplete(i)
        /\ PkBytesWithinLimit

\* C26: leaving a packet into which something was written produces a
\* readable packet with the header and the complete records of every push
\* that returned normally; a packet into which nothing was written is
\* cleared; the bytes of the members added without force never exceed the
\* limit less the reserved tail.
C26_ReadableUnlessEmpty ==
    /\ PkBytesWithinLimit
    /\ PkLeft =>
        IF pk.empty
        THEN pk.state = "cleared"
                /\ \A i \in DOMAIN pk.pushes :
                        pk.pushes[i].ok => pk.pushes[i].push.rows = << >>
                                            /\ pk.pushes[i].push.kind = "records"
        ELSE /\ pk.state = "closed"
             /\ pk.tar[Len(pk.tar)].name = <<"header">>
             /\ pk.tar[Len(pk.tar)].content = PkHeader
             /\ \A i \in DOMAIN pk.pushes : pk.pushes[i].ok => PkComplete(i)

C26_Witness ==
    /\ pk.state = "closed"
    /\ pk.room # 0
    /\ \E i \in DOMAIN pk.pushes : ~pk.pushes[i].ok
    /\ \E i \in DOMAIN pk.pushes : pk.pushes[i].ok /\ pk.pushes[i].push.kind = "records"
                                    /\ pk.pushes[i].push.rows # << >>

(***************************************************************************)
(* T. The commit task of the index writer  (active_document/index.py)      *)
(***************************************************************************)

\* Largest number of store and delete calls on the writer
MaxCwStores == 6

\* IndexWriter._check_for_commit
IndexWriter_check_for_commit(w) ==
    IF index_flush_threshold > 0 /\ w.pending_updates >= index_flush_threshold
    THEN [w EXCEPT !.commit_cond = TRUE]
    ELSE w

\* IndexWriter.store and IndexWriter.delete: one more pending update, then
\* _check_for_commit
IndexWriter_store(w) ==
    IndexWriter_check_for_commit(
        [w EXCEPT !.pending_updates = @ + 1, !.stores = @ + 1])

\* IndexWriter._commit up to the call of _commit_cb
IndexWriter_commit(w) ==
    IF w.pending_updates <= 0 THEN w
    ELSE [w EXCEPT !.pending_updates = 0, !.commits = @ + 1]

\* IndexWriter._commit_handler from the return of wait() on: _commit(), and
\* clear() unless the task is suspended inside _commit_cb
Commit_handler_woken(w, suspended) ==
    LET c == IndexWriter_commit(w)
    IN  IF w.pending_updates > 0 /\ suspended
        THEN [c EXCEPT !.pc = "commit_cb"]
        ELSE [c EXCEPT !.commit_cond = FALSE]

\* a writer whose commit task is in wait(); flush_timeout is
\* env.index_flush_timeout, 0 lets the task wait without timeout
CwInit ==
    \E t \in {0, index_flush_timeout} :
        cw = [pending_updates |-> 0, commit_cond |-> FALSE, pc |-> "wait",
              flush_timeout |-> t, stores |-> 0, commits |-> 0]

CwIdle ==
    cw = [pending_updates |-> 0, commit_cond |-> FALSE, pc |-> "idle",
          flush_timeout |-> 0, stores |-> 0, commits |-> 0]

\* a store or delete call of another task
CwStore ==
    /\ cw.stores < MaxCwStores
    /\ cw' = IndexWriter_store(cw)
    /\ UNCHANGED notCwVars

\* _commit_cond.wait(timeout) returns because the condition is set
CwCondSet ==
    /\ cw.pc = "wait"
    /\ cw.commit_cond
    /\ \E suspended \in BOOLEAN : cw' = Commit_handler_woken(cw, suspended)
    /\ UNCHANGED notCwVars

\* _commit_cond.wait(timeout) returns because the timeout has passed
CwTimeout ==
    /\ cw.pc = "wait"
    /\ ~cw.commit_cond
    /\ cw.flush_timeout > 0
    /\ \E suspended \in BOOLEAN : cw' = Commit_handler_woken(cw, suspended)
    /\ UNCHANGED notCwVars

\* _commit_cb returns to _commit_handler: _commit_cond.clear()
CwCallbackReturns ==
    /\ cw.pc = "commit_cb"
    /\ cw' = [cw EXCEPT !.commit_cond = FALSE, !.pc = "wait"]
    /\ UNCHANGED notCwVars

CwNext ==
    \/ CwStore
    \/ CwCondSet
    \/ CwTimeout
    \/ CwCallbackReturns

\* the commit task runs when it can: a set condition or a passed timeout
\* ends its wait, a callback returns
CwFairness ==
    /\ WF_vars(CwCondSet)
    /\ WF_vars(CwTimeout)
    /\ WF_vars(CwCallbackReturns)

(* ---- claims about the commit task ---- *)

\* C28: with index_flush_threshold > 0, whenever the pending updates have
\* reached the threshold the commit task eventually commits them (the
\* pending count returns to 0), whatever the interleaving of stores with
\* the commit task, also with index_flush_timeout 0.
C28_ThresholdCommits ==
    (cw.pending_updates >= index_flush_threshold) ~> (cw.pending_updates = 0)

(***************************************************************************)
(* U. Stopping the write thread  (active_document/index_queue.py)          *)
(***************************************************************************)

\* the entry of put(None, None): document None, no operation
CloseMarker == [op |-> "close", guid |-> "", to_commit |-> FALSE]

\* _Queue._push for the document None: its _Seqno is made on the first
\* push and never counts a change, so the entry never asks for a commit
Queue_push_none(w) ==
    LET s0 == IF w.none_seqno.exists THEN w.none_seqno ELSE NewQSeqno(w.now)
    IN  [w EXCEPT
            !.q.queue = Append(@, CloseMarker),
            !.none_seqno = [s0 EXCEPT !.exists = TRUE,
                              !.endtime = IF @ <= w.now
                                          THEN w.now + index_flush_timeout
                                          ELSE @]]

\* _Queue.pop_start up to `if not self._queue`: when the queue's timer has
\* run out every _Seqno whose timer has run out gets an entry, the one of
\* the document None too, in the order of the dictionary
WriteQueue_pop_start(w, none_first) ==
    LET none_due == /\ w.q.endtime - w.now <= 0
                    /\ w.none_seqno.exists
                    /\ w.none_seqno.endtime <= w.now
    IN  IF ~none_due THEN [w EXCEPT !.q = Queue_pop_start(w.q, w.now)]
        ELSE IF none_first
        THEN [Queue_push_none(w) EXCEPT
                !.q = Queue_pop_start(Queue_push_none(w).q, w.now)]
        ELSE Queue_push_none([w EXCEPT !.q = Queue_pop_start(w.q, w.now)])

WriteThread_close_unflushed(w) == w

\* _WriteThread._close: IndexWriter.close() commits the pending changes
WriteThread_close(w) ==
    [w EXCEPT !.committed = @ \cup w.pending, !.pending = {}]

\* _WriteThread._run, one entry: the marker sets `closing`; an operation is
\* applied, the writer commits if the entry says so; pop_done()
WriteThread_process(w) ==
    LET head == Head(w.q.queue)
        written == IF head.op = "store" THEN w.pending \cup {head.guid}
                   ELSE w.pending
    IN  IF head.op = "close"
        THEN [w EXCEPT !.q = Queue_pop_done(w.q, head.to_commit),
                       !.closing = TRUE, !.popped = FALSE]
        ELSE [w EXCEPT
                !.q = Queue_pop_done(w.q, head.to_commit),
                !.applied = IF head.op = "store" THEN Append(@, head.guid) ELSE @,
                !.pending = IF head.to_commit THEN {} ELSE written,
                !.committed = IF head.to_commit THEN @ \cup written ELSE @,
                !.popped = FALSE]

\* index_queue.start(): an empty queue and a running write thread
WtInit ==
    wt = [q |-> [queue |-> << >>, seqno |-> NoQSeqno,
                 endtime |-> index_flush_timeout],
          none_seqno |-> NoQSeqno, now |-> 0, popped |-> FALSE,
          closing |-> FALSE, thread |-> "running", stop |-> "no",
          pending |-> {}, committed |-> {}, applied |-> << >>,
          put |-> << >>, before |-> << >>]

WtIdle ==
    wt = [q |-> [queue |-> << >>, seqno |-> NoQSeqno, endtime |-> 0],
          none_seqno |-> NoQSeqno, now |-> 0, popped |-> FALSE,
          closing |-> FALSE, thread |-> "none", stop |-> "no",
          pending |-> {}, committed |-> {}, applied |-> << >>,
          put |-> << >>, before |-> << >>]

\* time passes
WtTick ==
    /\ wt.now < MaxClock
    /\ wt' = [wt EXCEPT !.now = @ + 1]
    /\ UNCHANGED notWtVars

\* index_queue.put(document, op) of some task, until stop() has returned
WtPut ==
    \E g \in PxGuids \ {wt.put[i] : i \in DOMAIN wt.put} :
        /\ wt.stop # "returned"
        /\ Len(wt.q.queue) < index_write_queue
        /\ wt' = [wt EXCEPT !.q = Queue_push(wt.q, FALSE, "store", g, wt.now),
                            !.put = Append(@, g)]
        /\ UNCHANGED notWtVars

\* index_queue.stop() up to _write_thread.join()
WtStop ==
    /\ wt.stop = "no"
    /\ Len(wt.q.queue) < index_write_queue
    /\ wt' = [Queue_push_none(wt) EXCEPT !.stop = "joining", !.before = wt.put]
    /\ UNCHANGED notWtVars

\* _WriteThread._run: pop_start(not closing); on _EmptyQueue run() closes
\* the writers and the thread ends
WtPopStart ==
    /\ wt.thread = "running"
    /\ ~wt.popped
    /\ wt.q.queue # << >> \/ wt.q.endtime <= wt.now \/ wt.closing
    /\ \E none_first \in BOOLEAN :
        LET w == WriteQueue_pop_start(wt, none_first)
        IN  wt' = IF w.q.queue # << >> THEN [w EXCEPT !.popped = TRUE]
                  ELSE IF wt.closing
                  THEN [WriteThread_close(w) EXCEPT !.thread = "closed"]
                  ELSE w
    /\ UNCHANGED notWtVars

\* _WriteThread._run: the entry taken is handled
WtProcess ==
    /\ wt.thread = "running"
    /\ wt.popped
    /\ wt' = WriteThread_process(wt)
    /\ UNCHANGED notWtVars

\* index_queue.stop(): join() returns, the queue is dropped
WtJoin ==
    /\ wt.stop = "joining"
    /\ wt.thread = "closed"
    /\ wt' = [wt EXCEPT !.stop = "returned"]
    /\ UNCHANGED notWtVars

WtNext ==
    \/ WtTick
    \/ WtPut
    \/ WtStop
    \/ WtPopStart
    \/ WtProcess
    \/ WtJoin

\* the write thread keeps being scheduled, and so does the task in join()
WtFairness ==
    /\ WF_vars(WtPopStart)
    /\ WF_vars(WtProcess)
    /\ WF_vars(WtJoin)

(* ---- claims about stopping ---- *)

\* the thread has ended with every operation put before the marker applied,
\* in the order of the puts, and nothing left uncommitted in the writers
WtDrained ==
    /\ wt.thread = "closed"
    /\ Len(wt.applied) >= Len(wt.before)
    /\ SubSeq(wt.applied, 1, Len(wt.before)) = wt.before
    /\ wt.pending = {}
    /\ \A i \in DOMAIN wt.before : wt.before[i] \in wt.committed

\* C30: once stop() has queued the close marker, the write thread applies
\* every operation queued before it, in FIFO order, closes the index
\* writers, which commits their pending changes, and ends; stop() returns,
\* and only after that.
C30_StopDrains ==
    /\ [](wt.thread = "closed" => WtDrained)
    /\ [](wt.stop = "returned" => wt.thread = "closed")
    /\ (wt.stop = "joining") ~> (wt.stop = "returned")

\* stop() has returned, and what was put before it was committed by the
\* close of the writers alone
C30_Witness ==
    /\ wt.stop = "returned"
    /\ wt.before # << >>
    /\ WtDrained
    /\ Queue_commit_seqno(wt.q) = 0

(***************************************************************************)
(* V. Volume.diff of documents with BLOBs  (sugar_network/resources/       *)
(*    volume.py, active_document/directory.py)                             *)
(***************************************************************************)

\* Largest value of the seqno counter in the runs of Volume.diff with BLOBs
MaxVdSeqno == 4

VdGuids == {"g1", "g2"}

\* the in_seq arguments of Volume.diff
VdRanges == {<< <<1, None>> >>, << <<2, None>> >>, << <<3, None>> >>,
             << <<1, 2>>, <<4, None>> >>}

VdNoDoc == [seqno |-> 0, props |-> 0, blob |-> 0]

VdNoRun == [phase |-> "idle", orig_seq |-> << >>, in_seq |-> << >>,
            push_seq |-> << >>, todo |-> << >>, records |-> << >>]

\* Directory.diff as Volume.diff consumes it: the documents whose seqno is in
\* accept_range, in the order of their seqno
RECURSIVE Directory_diff_guids(_, _)
Directory_diff_guids(docs, S) ==
    IF S = {} THEN << >>
    ELSE LET g == CHOOSE x \in S : \A y \in S : docs[x].seqno <= docs[y].seqno
         IN  <<g>> \o Directory_diff_guids(docs, S \ {g})

\* Directory.diff, the diff of one document: has it a property but the BLOB,
\* has it a BLOB, whose own seqno is in accept_range
Directory_diff_has_props(doc, accept_range) ==
    Sequence_contains(accept_range, doc.props)

Directory_diff_has_blob(doc, accept_range) ==
    doc.blob # 0 /\ Sequence_contains(accept_range, doc.blob)

\* patch() of Volume.diff, one document of Directory.diff: the BLOB is
\* pushed as a record of its own and taken out of the diff; `if not diff:
\* continue` skips an emptied diff and with it the update of in_seq and
\* push_seq
Volume_patch(run, g, doc) ==
    LET blob == Directory_diff_has_blob(doc, run.orig_seq)
        props == Directory_diff_has_props(doc, run.orig_seq)
        blob_rec == [cmd |-> "sn_push", guid |-> g, blob |-> TRUE,
                     seqno |-> doc.seqno, sequence |-> << >>]
        diff_rec == [cmd |-> "sn_push", guid |-> g, blob |-> FALSE,
                     seqno |-> doc.seqno, sequence |-> << >>]
    IN  [run EXCEPT
            !.todo = Tail(@),
            !.records = @ \o (IF blob THEN <<blob_rec>> ELSE << >>)
                          \o (IF props THEN <<diff_rec>> ELSE << >>),
            !.in_seq = IF props THEN Sequence_exclude(@, doc.seqno, doc.seqno)
                       ELSE @,
            !.push_seq = IF props THEN Sequence_include(@, doc.seqno, doc.seqno)
                         ELSE @]

\* Volume.diff after the last directory: `if push_seq:` the original
\* sequence is cut at push_seq.last and pushed as sn_commit
Volume_diff_commit(run) ==
    IF run.push_seq # << >>
    THEN [run EXCEPT
            !.phase = "done",
            !.records = Append(@, [cmd |-> "sn_commit", guid |-> "",
                                   blob |-> FALSE, seqno |-> 0,
                                   sequence |-> Sequence_floor(run.orig_seq,
                                                   Sequence_last(run.push_seq))])]
    ELSE [run EXCEPT !.phase = "done"]

VdInit == vd = [seqno |-> 0, docs |-> [g \in VdGuids |-> VdNoDoc], run |-> VdNoRun]

VdIdle == vd = [seqno |-> 0, docs |-> [g \in VdGuids |-> VdNoDoc], run |-> VdNoRun]

\* Directory.create: the properties and the document get a new seqno
VdCreate ==
    \E g \in VdGuids :
        /\ vd.run.phase = "idle"
        /\ vd.seqno < MaxVdSeqno
        /\ vd.docs[g].seqno = 0
        /\ LET s == Seqno_next(vd.seqno)
           IN  vd' = [vd EXCEPT !.seqno = s,
                                !.docs[g] = [seqno |-> s, props |-> s, blob |-> 0]]
        /\ UNCHANGED notVdVars

\* Directory.update: the written property and the document get a new seqno
VdUpdate ==
    \E g \in VdGuids :
        /\ vd.run.phase = "idle"
        /\ vd.seqno < MaxVdSeqno
        /\ vd.docs[g].seqno # 0
        /\ LET s == Seqno_next(vd.seqno)
           IN  vd' = [vd EXCEPT !.seqno = s,
                                !.docs[g].seqno = s, !.docs[g].props = s]
        /\ UNCHANGED notVdVars

\* Directory.set_blob: the BLOB and the document get a new seqno
VdSetBlob ==
    \E g \in VdGuids :
        /\ vd.run.phase = "idle"
        /\ vd.seqno < MaxVdSeqno
        /\ vd.docs[g].seqno # 0
        /\ LET s == Seqno_next(vd.seqno)
           IN  vd' = [vd EXCEPT !.seqno = s,
                                !.docs[g].seqno = s, !.docs[g].blob = s]
        /\ UNCHANGED notVdVars

\* Volume.diff(in_seq, out_packet) up to the first document of patch()
VdDiff ==
    \E r \in VdRanges :
        /\ vd.run.phase = "idle"
        /\ vd.seqno > 0
        /\ vd' = [vd EXCEPT !.run =
                    [phase |-> "patch", orig_seq |-> r, in_seq |-> r,
                     push_seq |-> << >>, records |-> << >>,
                     todo |-> Directory_diff_guids(vd.docs,
                                {g \in VdGuids : /\ vd.docs[g].seqno # 0
                                                 /\ Sequence_contains(r, vd.docs[g].seqno)})]]
        /\ UNCHANGED notVdVars

\* one round of the loop of patch()
VdPatch ==
    /\ vd.run.phase = "patch"
    /\ vd.run.todo # << >>
    /\ vd' = [vd EXCEPT !.run = Volume_patch(vd.run, Head(vd.run.todo),
                                             vd.docs[Head(vd.run.todo)])]
    /\ UNCHANGED notVdVars

\* the end of Volume.diff
VdEnd ==
    /\ vd.run.phase = "patch"
    /\ vd.run.todo = << >>
    /\ vd' = [vd EXCEPT !.run = Volume_diff_commit(vd.run)]
    /\ UNCHANGED notVdVars

VdNext == VdCreate \/ VdUpdate \/ VdSetBlob \/ VdDiff \/ VdPatch \/ VdEnd

VdRecords(cmd) ==
    {i \in 1..Len(vd.run.records) : vd.run.records[i].cmd = cmd}

VdHighestPushed ==
    CHOOSE n \in 1..MaxVdSeqno :
        /\ \E i \in VdRecords("sn_push") : vd.run.records[i].seqno = n
        /\ \A i \in VdRecords("sn_push") : vd.run.records[i].seqno <= n

\* C34: when Volume.diff completed and emitted an sn_push record, the packet
\* has exactly one sn_commit, its sequence is the requested sequence cut at
\* the highest emitted seqno, and the seqno of every document with an
\* sn_push record, of properties or of a BLOB, is covered by it
C34_CommitCoversPushed ==
    (vd.run.phase = "done" /\ VdRecords("sn_push") # {}) =>
        /\ Cardinality(VdRecords("sn_commit")) = 1
        /\ \A c \in VdRecords("sn_commit") :
            /\ vd.run.records[c].sequence =
                   Sequence_floor(vd.run.orig_seq, VdHighestPushed)
            /\ \A i \in VdRecords("sn_push") :
                   Sequence_contains(vd.run.records[c].sequence,
                                     vd.run.records[i].seqno)

(***************************************************************************)
(* W. The seqno counter file across restarts  (active_document/env.py,     *)
(*    active_document/directory.py)                                        *)
(***************************************************************************)

\* Largest value of the seqno counter in the runs with restarts
MaxSqSeqno == 4

\* Largest number of restarts
MaxSqRestarts == 2

SqGuids == {"g1", "g2"}

\* Seqno.__init__: the value of the file, 0 without a file
Seqno_init(file) == [value |-> file, orig_value |-> file]

\* Seqno.commit: the file is written only when the value has changed since
\* the last load or commit; the value of the file afterwards
Seqno_commit_file(counter, file) ==
    IF counter.value = counter.orig_value THEN file ELSE counter.value

\* Seqno.commit: the counter afterwards
Seqno_commit(counter) == [counter EXCEPT !.orig_value = counter.value]

\* Directory._pre_store with increment_seqno: the counter is incremented in
\* memory and record.set writes the property files with the new seqno
Directory_pre_store_stamp(counter, stamps, g) ==
    LET seqno == Seqno_next(counter.value)
    IN  [counter |-> [counter EXCEPT !.value = seqno],
         stamps |-> [stamps EXCEPT ![g] = seqno]]

SqInit == sq = [up |-> TRUE, counter |-> Seqno_init(0), file |-> 0,
                stamps |-> [g \in SqGuids |-> 0], restarts |-> 0]

SqIdle == sq = [up |-> TRUE, counter |-> Seqno_init(0), file |-> 0,
                stamps |-> [g \in SqGuids |-> 0], restarts |-> 0]

\* IndexWriter.store calls Directory._pre_store for a create or an update
SqStore ==
    \E g \in SqGuids :
        /\ sq.up
        /\ sq.counter.value < MaxSqSeqno
        /\ LET r == Directory_pre_store_stamp(sq.counter, sq.stamps, g)
           IN  sq' = [sq EXCEPT !.counter = r.counter, !.stamps = r.stamps]
        /\ UNCHANGED notSqVars

\* IndexWriter.commit calls Directory._post_commit
SqCommit ==
    /\ sq.up
    /\ sq.counter.value # sq.file
    /\ sq' = [sq EXCEPT !.file = Seqno_commit_file(sq.counter, sq.file),
                        !.counter = Seqno_commit(sq.counter)]
    /\ UNCHANGED notSqVars

\* the process dies: the files stay as they are
SqCrash ==
    /\ sq.up
    /\ sq.restarts < MaxSqRestarts
    /\ sq' = [sq EXCEPT !.up = FALSE]
    /\ UNCHANGED notSqVars

\* the process starts again: Volume.__init__ loads the counter from its file
SqRestart ==
    /\ ~sq.up
    /\ sq' = [sq EXCEPT !.up = TRUE, !.counter = Seqno_init(sq.file),
                        !.restarts = @ + 1]
    /\ UNCHANGED notSqVars

SqNext == SqStore \/ SqCommit \/ SqCrash \/ SqRestart

\* C37: after a crash and a restart the seqno counter loaded from disk is
\* greater than or equal to every seqno stamped on a property file
C37_CounterCoversStamps ==
    (sq.up /\ sq.restarts > 0) =>
        \A g \in SqGuids : sq.stamps[g] <= sq.counter.value

(***************************************************************************)
(* X. Importing packets on the satellite  (sugar_network/node/             *)
(*    sync_node.py)                                                        *)
(***************************************************************************)

\* Largest integer in the sequences of imported sn_ack and sn_commit records
MaxImInt == 3

\* Largest number of imported acknowledgements addressed to this node
MaxImAcks == 2

\* self._mount.master_guid and self._mount.node_guid
ImMasterGuid == "master"

ImNodeGuid == "node"

\* the sequences of the imported records: one closed range
ImSequences ==
    {<< <<p[1], p[2]>> >> :
        p \in {q \in (1..MaxImInt) \X (1..MaxImInt) : q[1] <= q[2]}}

\* the records of the imported packets
ImRecords ==
    {[cmd |-> "sn_push", dst |-> "", sequence |-> << >>, merged |-> << >>]}
    \cup {[cmd |-> "sn_commit", dst |-> "", sequence |-> s, merged |-> << >>] :
            s \in ImSequences}
    \cup {[cmd |-> "sn_ack", dst |-> d, sequence |-> s, merged |-> m] :
            d \in {ImNodeGuid, "other"}, s \in ImSequences, m \in ImSequences}

NoImport == [src |-> "", record |-> [cmd |-> "", dst |-> "", sequence |-> << >>,
                                     merged |-> << >>]]

\* SyncCommands._import, one record of the packet: the persistent sequences
\* and the number of seqno.next() calls afterwards
SyncCommands_import_record(node, src, record) ==
    LET from_master == (src = ImMasterGuid)
    IN  IF record.cmd = "sn_push" THEN node
        ELSE IF ~from_master THEN node
        ELSE IF record.cmd = "sn_commit"
        THEN [node EXCEPT !.pull_seq = Sequence_exclude_all(@, record.sequence)]
        ELSE IF record.cmd = "sn_ack" /\ record.dst = ImNodeGuid
        THEN [node EXCEPT
                !.push_seq = Sequence_exclude_all(@, record.sequence),
                !.pull_seq = Sequence_exclude_all(@, record.merged),
                !.acks = @ + 1]
        ELSE node

ImInit == im = [push_seq |-> << <<1, None>> >>, pull_seq |-> << <<1, None>> >>,
                acks |-> 0, last |-> NoImport]

ImIdle == im = [push_seq |-> << <<1, None>> >>, pull_seq |-> << <<1, None>> >>,
                acks |-> 0, last |-> NoImport]

\* SyncCommands._import of a packet with one record
ImImport ==
    \E src \in {ImMasterGuid, "other"}, record \in ImRecords :
        /\ (src = ImMasterGuid /\ record.cmd = "sn_ack" /\ record.dst = ImNodeGuid)
                => im.acks < MaxImAcks
        /\ im' = [SyncCommands_import_record(im, src, record) EXCEPT
                    !.last = [src |-> src, record |-> record]]
        /\ UNCHANGED notImVars

ImNext == ImImport

\* the integers of a sequence, up to one above the largest imported integer
ImInts(s) == {n \in 1..(MaxImInt + 1) : Sequence_contains(s, n)}

\* C31: an import changes the push and pull sequences only through records
\* from the master: an sn_ack addressed to this node removes exactly the
\* integers of its sequence from push and of its merged seqnos from pull, an
\* sn_commit removes exactly the integers of its sequence from pull, and
\* every other packet leaves both sequences unchanged
C31_ImportRemovesExactly ==
    [][LET src == im'.last.src
           record == im'.last.record
           ack == /\ src = ImMasterGuid /\ record.cmd = "sn_ack"
                  /\ record.dst = ImNodeGuid
           commit == src = ImMasterGuid /\ record.cmd = "sn_commit"
       IN  /\ ack => /\ ImInts(im'.push_seq) =
                            ImInts(im.push_seq) \ ImInts(record.sequence)
                     /\ ImInts(im'.pull_seq) =
                            ImInts(im.pull_seq) \ ImInts(record.merged)
           /\ commit => /\ ImInts(im'.pull_seq) =
                            ImInts(im.pull_seq) \ ImInts(record.sequence)
                        /\ im'.push_seq = im.push_seq
           /\ (~ack /\ ~commit) => /\ im'.push_seq = im.push_seq
                                   /\ im'.pull_seq = im.pull_seq]_vars

(***************************************************************************)
(* Y. The seeder's index of files  (sugar_network/toolkit/files_sync.py)   *)
(***************************************************************************)

\* Largest value of the clock of the seeded directory, in half seconds
MaxSdTime == 4

\* the relative paths of the seeded directory, in sorted order
SdPaths == <<"a", "b">>

\* the mtime of an index entry of a deleted file
Tombstone == -1

\* is the index entry `mtime` of a tracked file still right: the file exists
\* exactly when the entry is no tombstone, and has the entry's mtime
Seeder_sync_unchanged(files, rel_path, mtime) ==
    LET existing == files[rel_path] # 0
    IN  existing = (mtime >= 0) /\ (~existing \/ files[rel_path] = mtime)

\* Seeder._sync, `Populate list of new files at first`: the files whose
\* mtime is later than the stamp
Seeder_sync_new_files(files, stamp) ==
    {p \in DOMAIN files : files[p] # 0 /\ files[p] > stamp}

\* Seeder._sync, `Check for updates for already tracked files`, from entry i
\* of the index on: a changed entry is taken out and appended to tail with a
\* new seqno and int(st_mtime), or -1 for a deleted file; only a changed,
\* existing file is discarded from new_files
RECURSIVE Seeder_sync_tracked(_, _, _, _)
Seeder_sync_tracked(acc, index, i, files) ==
    IF i > Len(index) THEN acc
    ELSE LET rel_path == index[i].path
             existing == files[rel_path] # 0
         IN  IF Seeder_sync_unchanged(files, rel_path, index[i].mtime)
             THEN Seeder_sync_tracked([acc EXCEPT !.kept = Append(@, index[i])],
                                      index, i + 1, files)
             ELSE Seeder_sync_tracked(
                    [kept |-> acc.kept,
                     new_files |-> IF existing THEN acc.new_files \ {rel_path}
                                   ELSE acc.new_files,
                     seqno |-> Seqno_next(acc.seqno),
                     tail |-> Append(acc.tail,
                                [seqno |-> Seqno_next(acc.seqno),
                                 path |-> rel_path,
                                 mtime |-> IF existing THEN PpInt(files[rel_path])
                                           ELSE Tombstone])],
                    index, i + 1, files)

\* Seeder._sync, `Finally, add new files`: one entry per path of
\* sorted(new_files), with a new seqno and the file's st_mtime
RECURSIVE Seeder_sync_add(_, _, _, _)
Seeder_sync_add(s, new_files, i, files) ==
    IF i > Len(SdPaths) THEN s
    ELSE IF SdPaths[i] \notin new_files
    THEN Seeder_sync_add(s, new_files, i + 1, files)
    ELSE Seeder_sync_add(
            [s EXCEPT !.seqno = Seqno_next(@),
                      !.index = Append(@, [seqno |-> Seqno_next(s.seqno),
                                           path |-> SdPaths[i],
                                           mtime |-> files[SdPaths[i]]])],
            new_files, i + 1, files)

\* Seeder._sync
Seeder_sync(s, files, dir_mtime) ==
    IF dir_mtime <= s.stamp THEN s
    ELSE LET t == Seeder_sync_tracked(
                    [kept |-> << >>, tail |-> << >>, seqno |-> s.seqno,
                     new_files |-> Seeder_sync_new_files(files, s.stamp)],
                    s.index, 1, files)
             added == Seeder_sync_add(
                        [s EXCEPT !.index = t.kept \o t.tail, !.seqno = t.seqno],
                        t.new_files, 1, files)
         IN  [added EXCEPT !.stamp = dir_mtime]

SdInit == sd = [now |-> 1, dir_mtime |-> 1,
                files |-> [p \in {"a", "b"} |-> 0],
                seeder |-> [index |-> << >>, stamp |-> 0, seqno |-> 0],
                scanned |-> FALSE]

SdIdle == sd = [now |-> 1, dir_mtime |-> 1,
                files |-> [p \in {"a", "b"} |-> 0],
                seeder |-> [index |-> << >>, stamp |-> 0, seqno |-> 0],
                scanned |-> FALSE]

\* time passes
SdTick ==
    /\ sd.now < MaxSdTime
    /\ sd' = [sd EXCEPT !.now = @ + 1]
    /\ UNCHANGED notSdVars

\* a file is created: the directory's mtime changes too
SdCreate ==
    \E p \in DOMAIN sd.files :
        /\ sd.files[p] = 0
        /\ sd' = [sd EXCEPT !.files[p] = sd.now, !.dir_mtime = sd.now,
                            !.scanned = FALSE]
        /\ UNCHANGED notSdVars

\* a file is written: the directory's mtime stays
SdModify ==
    \E p \in DOMAIN sd.files :
        /\ sd.files[p] # 0
        /\ sd.files[p] # sd.now
        /\ sd' = [sd EXCEPT !.files[p] = sd.now, !.scanned = FALSE]
        /\ UNCHANGED notSdVars

\* a file is deleted: the directory's mtime changes
SdDelete ==
    \E p \in DOMAIN sd.files :
        /\ sd.files[p] # 0
        /\ sd' = [sd EXCEPT !.files[p] = 0, !.dir_mtime = sd.now,
                            !.scanned = FALSE]
        /\ UNCHANGED notSdVars

\* Seeder._sync, called by pull() and pending()
SdSync ==
    /\ ~sd.scanned
    /\ sd' = [sd EXCEPT !.seeder = Seeder_sync(sd.seeder, sd.files, sd.dir_mtime),
                        !.scanned = TRUE]
    /\ UNCHANGED notSdVars

SdNext == SdTick \/ SdCreate \/ SdModify \/ SdDelete \/ SdSync

SdSorted ==
    \A i, j \in 1..Len(sd.seeder.index) :
        i < j => sd.seeder.index[i].seqno < sd.seeder.index[j].seqno

SdOnePerPath ==
    \A i, j \in 1..Len(sd.seeder.index) :
        i # j => sd.seeder.index[i].path # sd.seeder.index[j].path

SdCurrent ==
    \A i \in 1..Len(sd.seeder.index) :
        LET e == sd.seeder.index[i]
        IN  e.mtime = IF sd.files[e.path] # 0 THEN sd.files[e.path] ELSE Tombstone

\* C32: after file creations, modifications, deletions and a rescan the
\* index is sorted by strictly increasing seqno and has at most one entry
\* per relative path, whose mtime is the file's current mtime or the
\* tombstone if the file no longer exists
C32_IndexSortedOnePerPath ==
    sd.scanned => SdSorted /\ SdOnePerPath /\ SdCurrent

(***************************************************************************)
(* Z. Synchronization sessions of the satellite  (sugar_network/node/      *)
(*    sync_node.py)                                                        *)
(***************************************************************************)

\* Largest number of synchronization sessions
MaxSsSessions == 3

\* the path argument of sync_session (no path is "") and the mounts of
\* self._sync_mounts
SsPaths == {"", "p"}

SsMounts == {<< >>, <<"m1">>, <<"m1", "m2">>, <<"m1", "m2", "m3">>}

\* how one call of SyncCommands.sync ends: it returns None, it returns the
\* state to resume after DiskFull, or it raises
SsOutcomes == {"none", "diskfull", "raise"}

TerminalEvents == {"sync_complete", "sync_continue", "sync_error"}

\* sync_session up to its loop: the calls of sync(path) the loop can make,
\* the path first and then the mounts
SyncSession_targets(path, mounts) ==
    (IF path # "" THEN <<path>> ELSE << >>) \o mounts

\* the inner function sync(path) of sync_session: sync_start is published,
\* SyncCommands.sync publishes its progress and its result becomes
\* self._sync_session
SyncSession_sync(s, outcome) ==
    [s EXCEPT
        !.events = @ \o (IF outcome = "raise" THEN <<"sync_start">>
                         ELSE <<"sync_start", "sync_progress">>),
        !.resume = IF outcome = "raise" THEN @ ELSE (outcome = "diskfull"),
        !.targets = Tail(@)]

\* sync_session after its loop: sync_complete without a state to resume,
\* sync_continue with one
SyncSession_end(s) ==
    [s EXCEPT !.phase = "done",
              !.events = Append(@, IF ~s.resume THEN "sync_complete"
                                   ELSE "sync_continue")]

\* sync_session, `except Exception`: sync_error is published and the state
\* to resume is dropped; the function goes on after the try statement
SyncSession_except(s) ==
    SyncSession_end([s EXCEPT !.events = Append(@, "sync_error"),
                              !.resume = FALSE,
                              !.failed = TRUE])

SsInit == ss = [phase |-> "idle", targets |-> << >>, resume |-> FALSE,
                events |-> << >>, failed |-> FALSE, sessions |-> 0]

SsIdle == ss = [phase |-> "idle", targets |-> << >>, resume |-> FALSE,
                events |-> << >>, failed |-> FALSE, sessions |-> 0]

\* start_sync(path) spawns sync_session
SsStart ==
    \E path \in SsPaths, mounts \in SsMounts :
        /\ ss.phase # "running"
        /\ ss.sessions < MaxSsSessions
        /\ path # "" \/ mounts # << >>
        /\ ss' = [ss EXCEPT !.phase = "running",
                            !.targets = SyncSession_targets(path, mounts),
                            !.events = << >>,
                            !.failed = FALSE,
                            !.sessions = @ + 1]
        /\ UNCHANGED notSsVars

\* one call of sync(path) in the loop of sync_session, and the end of the
\* session when the call was the last one
SsSync ==
    \E outcome \in SsOutcomes :
        /\ ss.phase = "running"
        /\ ss.targets # << >>
        /\ LET s == SyncSession_sync(ss, outcome)
           IN  ss' = IF outcome = "raise" THEN SyncSession_except(s)
                     ELSE IF outcome = "none" \/ s.targets = << >>
                     THEN SyncSession_end(s)
                     ELSE s
        /\ UNCHANGED notSsVars

SsNext == SsStart \/ SsSync

SsTerminals ==
    {i \in 1..Len(ss.events) : ss.events[i] \in TerminalEvents}

\* C38: a finished session has published sync_start before any other event
\* and exactly one terminal event, the last one: sync_error if it failed,
\* sync_continue if it stopped with a state to resume, sync_complete
\* otherwise; a failed session has not published sync_complete
C38_OneTerminalEvent ==
    ss.phase = "done" =>
        /\ ss.events[1] = "sync_start"
        /\ SsTerminals = {Len(ss.events)}
        /\ ss.events[Len(ss.events)] =
                IF ss.failed THEN "sync_error"
                ELSE IF ss.resume THEN "sync_continue"
                ELSE "sync_complete"
        /\ ss.failed => \A i \in 1..Len(ss.events) : ss.events[i] # "sync_complete"

(***************************************************************************)
(* AA. Waiting for room in the write queue  (active_document/              *)
(*     index_queue.py, active_toolkit/coroutine.py)                        *)
(***************************************************************************)

\* Largest number of operations pushed to the queue
MaxLwPushes == 5

\* AsyncEvent.send: the async watcher of the hub fires only when it has been
\* started, that is while a coroutine is inside AsyncEvent.wait; a send to a
\* watcher that is not started is dropped when the watcher is started next
AsyncEvent_send(w) ==
    IF w.producer = "waiting" THEN [w EXCEPT !.producer = "woken"] ELSE w

\* _Queue.push from `while len(self._queue) >= index_write_queue` on, with
\* the mutex held: a full queue releases the mutex before the wait on
\* _done_async, otherwise _push appends the operation and push returns
Queue_push_or_postpone(w) ==
    IF w.queue >= index_write_queue
    THEN [w EXCEPT !.producer = "released"]
    ELSE [w EXCEPT !.producer = "idle", !.queue = @ + 1, !.pushed = @ + 1]

\* _Queue.pop_done up to the release of the mutex: popleft
Queue_pop_done_locked(w) == [w EXCEPT !.queue = @ - 1, !.writer = "send"]

LwInit == lw = [queue |-> 0, producer |-> "idle", writer |-> "idle",
                pushed |-> 0, postponed |-> 0]

LwIdle == lw = [queue |-> 0, producer |-> "idle", writer |-> "idle",
                pushed |-> 0, postponed |-> 0]

\* a coroutine calls push: the mutex is taken and the queue's length tested
LwPush ==
    /\ lw.producer = "idle"
    /\ lw.pushed < MaxLwPushes
    /\ lw' = [Queue_push_or_postpone(lw) EXCEPT
                !.postponed = IF lw.queue >= index_write_queue THEN @ + 1 ELSE @]
    /\ UNCHANGED notLwVars

\* the producer, with the mutex released, enters self._done_async.wait():
\* the watcher is started and the coroutine switches to the hub
LwWait ==
    /\ lw.producer = "released"
    /\ lw' = [lw EXCEPT !.producer = "waiting"]
    /\ UNCHANGED notLwVars

\* the woken producer takes the mutex again and tests the queue's length
LwRetry ==
    /\ lw.producer = "woken"
    /\ lw' = Queue_push_or_postpone(lw)
    /\ UNCHANGED notLwVars

\* the writer thread: pop_start returns the first entry of the queue
LwPopStart ==
    /\ lw.writer = "idle"
    /\ lw.queue > 0
    /\ lw' = [lw EXCEPT !.writer = "process"]
    /\ UNCHANGED notLwVars

\* the writer thread: pop_done removes the entry under the mutex
LwPopDone ==
    /\ lw.writer = "process"
    /\ lw' = Queue_pop_done_locked(lw)
    /\ UNCHANGED notLwVars

\* the writer thread: pop_done, after the release of the mutex, sends
\* _done_async
LwSend ==
    /\ lw.writer = "send"
    /\ lw' = [AsyncEvent_send(lw) EXCEPT !.writer = "idle"]
    /\ UNCHANGED notLwVars

LwNext == LwPush \/ LwWait \/ LwRetry \/ LwPopStart \/ LwPopDone \/ LwSend

\* the writer thread and the producer's coroutine keep running
LwFairness ==
    /\ WF_vars(LwWait)
    /\ WF_vars(LwRetry)
    /\ WF_vars(LwPopStart)
    /\ WF_vars(LwPopDone)
    /\ WF_vars(LwSend)

CoreIdle == SeqIdle /\ VolIdle /\ PxIdle /\ FdIdle /\ DfIdle /\ SyIdle

ExtIdle == DdIdle /\ RsIdle /\ PpIdle /\ MpIdle /\ PlIdle /\ EvIdle /\ NcIdle /\ CpIdle /\ RtIdle /\ PkIdle /\ CwIdle /\ WtIdle /\ VdIdle /\ SqIdle /\ ImIdle /\ SdIdle /\ SsIdle /\ LwIdle

SeqSpecInit == SeqInit /\ VolIdle /\ PxIdle /\ FdIdle /\ DfIdle /\ SyIdle /\ ExtIdle

SpecSeqFloor == SeqSpecInit /\ [][SeqFloorNext]_vars

SpecSeq == SeqSpecInit /\ [][SeqNext]_vars

VolSpecInit == VolInit /\ SeqIdle /\ PxIdle /\ FdIdle /\ DfIdle /\ SyIdle /\ ExtIdle

SpecVol == VolSpecInit /\ [][VolNext]_vars

ProxySpecInit == PxInit /\ SeqIdle /\ VolIdle /\ FdIdle /\ DfIdle /\ SyIdle /\ ExtIdle

FlushSpecInit == PxInit /\ SeqIdle /\ VolIdle /\ FdIdle /\ DfIdle /\ SyIdle /\ ExtIdle

SpecFlush == FlushSpecInit /\ [][FlushNext]_vars /\ FlushFairness

SpecProxy == ProxySpecInit /\ [][ProxyNext]_vars

ProxiesSpecInit == PxInit /\ VolIdle /\ SeqIdle /\ FdIdle /\ DfIdle /\ SyIdle /\ ExtIdle

SpecProxies == ProxiesSpecInit /\ [][ProxiesNext]_vars

FindSpecInit == FdInit /\ SeqIdle /\ VolIdle /\ PxIdle /\ DfIdle /\ SyIdle /\ ExtIdle

SpecFind == FindSpecInit /\ [][FdNext]_vars

DiffSpecInit == DfInit /\ SeqIdle /\ VolIdle /\ PxIdle /\ FdIdle /\ SyIdle /\ ExtIdle

SpecDiff == DiffSpecInit /\ [][DfNext]_vars

SyncSpecInit == SyInit /\ SeqIdle /\ VolIdle /\ PxIdle /\ FdIdle /\ DfIdle /\ ExtIdle

SpecSync == SyncSpecInit /\ [][SyNext]_vars

DirDiffSpecInit == DdInit /\ CoreIdle /\ RsIdle /\ PpIdle /\ MpIdle /\ PlIdle /\ EvIdle /\ NcIdle /\ CpIdle /\ RtIdle /\ PkIdle /\ CwIdle /\ WtIdle /\ VdIdle /\ SqIdle /\ ImIdle /\ SdIdle /\ SsIdle /\ LwIdle

SpecDirDiff == DirDiffSpecInit /\ [][DdNext]_vars

DirDiffConcSpecInit == DdInit /\ CoreIdle /\ RsIdle /\ PpIdle /\ MpIdle /\ PlIdle /\ EvIdle /\ NcIdle /\ CpIdle /\ RtIdle /\ PkIdle /\ CwIdle /\ WtIdle /\ VdIdle /\ SqIdle /\ ImIdle /\ SdIdle /\ SsIdle /\ LwIdle

SpecDirDiffConc == DirDiffConcSpecInit /\ [][DdConcNext]_vars

RecordSpecInit == RsInit /\ CoreIdle /\ DdIdle /\ PpIdle /\ MpIdle /\ PlIdle /\ EvIdle /\ NcIdle /\ CpIdle /\ RtIdle /\ PkIdle /\ CwIdle /\ WtIdle /\ VdIdle /\ SqIdle /\ ImIdle /\ SdIdle /\ SsIdle /\ LwIdle

SpecRecord == RecordSpecInit /\ [][RsNext]_vars

PopulateSpecInit == PpInit /\ CoreIdle /\ DdIdle /\ RsIdle /\ MpIdle /\ PlIdle /\ EvIdle /\ NcIdle /\ CpIdle /\ RtIdle /\ PkIdle /\ CwIdle /\ WtIdle /\ VdIdle /\ SqIdle /\ ImIdle /\ SdIdle /\ SsIdle /\ LwIdle

SpecPopulate == PopulateSpecInit /\ [][PpNext]_vars

PushSpecInit == MpInit /\ CoreIdle /\ DdIdle /\ RsIdle /\ PpIdle /\ PlIdle /\ EvIdle /\ NcIdle /\ CpIdle /\ RtIdle /\ PkIdle /\ CwIdle /\ WtIdle /\ VdIdle /\ SqIdle /\ ImIdle /\ SdIdle /\ SsIdle /\ LwIdle

SpecPush == PushSpecInit /\ [][MpNext]_vars

PullSpecInit == PlInit /\ CoreIdle /\ DdIdle /\ RsIdle /\ PpIdle /\ MpIdle /\ EvIdle /\ NcIdle /\ CpIdle /\ RtIdle /\ PkIdle /\ CwIdle /\ WtIdle /\ VdIdle /\ SqIdle /\ ImIdle /\ SdIdle /\ SsIdle /\ LwIdle

SpecPull == PullSpecInit /\ [][PlNext]_vars

EventsSpecInit == EvInit /\ CoreIdle /\ DdIdle /\ RsIdle /\ PpIdle /\ MpIdle /\ PlIdle /\ NcIdle /\ CpIdle /\ RtIdle /\ PkIdle /\ CwIdle /\ WtIdle /\ VdIdle /\ SqIdle /\ ImIdle /\ SdIdle /\ SsIdle /\ LwIdle

SpecEvents == EventsSpecInit /\ [][EvNext]_vars

NodeSpecInit == NcInit /\ CoreIdle /\ DdIdle /\ RsIdle /\ PpIdle /\ MpIdle /\ PlIdle /\ EvIdle /\ CpIdle /\ RtIdle /\ PkIdle /\ CwIdle /\ WtIdle /\ VdIdle /\ SqIdle /\ ImIdle /\ SdIdle /\ SsIdle /\ LwIdle

SpecNode == NodeSpecInit /\ [][NcNext]_vars

CommandsSpecInit == CpInit /\ CoreIdle /\ DdIdle /\ RsIdle /\ PpIdle /\ MpIdle /\ PlIdle /\ EvIdle /\ NcIdle /\ RtIdle /\ PkIdle /\ CwIdle /\ WtIdle /\ VdIdle /\ SqIdle /\ ImIdle /\ SdIdle /\ SsIdle /\ LwIdle

SpecCommands == CommandsSpecInit /\ [][CpNext]_vars

RouterSpecInit == RtInit /\ CoreIdle /\ DdIdle /\ RsIdle /\ PpIdle /\ MpIdle /\ PlIdle /\ EvIdle /\ NcIdle /\ CpIdle /\ PkIdle /\ CwIdle /\ WtIdle /\ VdIdle /\ SqIdle /\ ImIdle /\ SdIdle /\ SsIdle /\ LwIdle

SpecRouter == RouterSpecInit /\ [][RtNext]_vars

PacketSpecInit == PkInit /\ CoreIdle /\ DdIdle /\ RsIdle /\ PpIdle /\ MpIdle /\ PlIdle /\ EvIdle /\ NcIdle /\ CpIdle /\ RtIdle /\ CwIdle /\ WtIdle /\ VdIdle /\ SqIdle /\ ImIdle /\ SdIdle /\ SsIdle /\ LwIdle

SpecPacket == PacketSpecInit /\ [][PkNext]_vars

CommitSpecInit == CwInit /\ CoreIdle /\ DdIdle /\ RsIdle /\ PpIdle /\ MpIdle /\ PlIdle /\ EvIdle /\ NcIdle /\ CpIdle /\ RtIdle /\ PkIdle /\ WtIdle /\ VdIdle /\ SqIdle /\ ImIdle /\ SdIdle /\ SsIdle /\ LwIdle

SpecCommit == CommitSpecInit /\ [][CwNext]_vars /\ CwFairness

StopSpecInit == WtInit /\ CoreIdle /\ DdIdle /\ RsIdle /\ PpIdle /\ MpIdle /\ PlIdle /\ EvIdle /\ NcIdle /\ CpIdle /\ RtIdle /\ PkIdle /\ CwIdle /\ VdIdle /\ SqIdle /\ ImIdle /\ SdIdle /\ SsIdle /\ LwIdle

SpecStop == StopSpecInit /\ [][WtNext]_vars /\ WtFairness

VolDiffSpecInit == VdInit /\ CoreIdle /\ DdIdle /\ RsIdle /\ PpIdle /\ MpIdle /\ PlIdle /\ EvIdle /\ NcIdle /\ CpIdle /\ RtIdle /\ PkIdle /\ CwIdle /\ WtIdle /\ SqIdle /\ ImIdle /\ SdIdle /\ SsIdle /\ LwIdle

SpecVolDiff == VolDiffSpecInit /\ [][VdNext]_vars

SeqnoSpecInit == SqInit /\ CoreIdle /\ DdIdle /\ RsIdle /\ PpIdle /\ MpIdle /\ PlIdle /\ EvIdle /\ NcIdle /\ CpIdle /\ RtIdle /\ PkIdle /\ CwIdle /\ WtIdle /\ VdIdle /\ ImIdle /\ SdIdle /\ SsIdle /\ LwIdle

SpecSeqno == SeqnoSpecInit /\ [][SqNext]_vars

ImportSpecInit == ImInit /\ CoreIdle /\ DdIdle /\ RsIdle /\ PpIdle /\ MpIdle /\ PlIdle /\ EvIdle /\ NcIdle /\ CpIdle /\ RtIdle /\ PkIdle /\ CwIdle /\ WtIdle /\ VdIdle /\ SqIdle /\ SdIdle /\ SsIdle /\ LwIdle

SpecImport == ImportSpecInit /\ [][ImNext]_vars

SeederSpecInit == SdInit /\ CoreIdle /\ DdIdle /\ RsIdle /\ PpIdle /\ MpIdle /\ PlIdle /\ EvIdle /\ NcIdle /\ CpIdle /\ RtIdle /\ PkIdle /\ CwIdle /\ WtIdle /\ VdIdle /\ SqIdle /\ ImIdle /\ SsIdle /\ LwIdle

SpecSeeder == SeederSpecInit /\ [][SdNext]_vars

SessionSpecInit == SsInit /\ CoreIdle /\ DdIdle /\ RsIdle /\ PpIdle /\ MpIdle /\ PlIdle /\ EvIdle /\ NcIdle /\ CpIdle /\ RtIdle /\ PkIdle /\ CwIdle /\ WtIdle /\ VdIdle /\ SqIdle /\ ImIdle /\ SdIdle /\ LwIdle

SpecSession == SessionSpecInit /\ [][SsNext]_vars

WakeupSpecInit == LwInit /\ CoreIdle /\ DdIdle /\ RsIdle /\ PpIdle /\ MpIdle /\ PlIdle /\ EvIdle /\ NcIdle /\ CpIdle /\ RtIdle /\ PkIdle /\ CwIdle /\ WtIdle /\ VdIdle /\ SqIdle /\ ImIdle /\ SdIdle /\ SsIdle

SpecWakeup == WakeupSpecInit /\ [][LwNext]_vars /\ LwFairness

====
